---- MODULE Spec2Model ----
(***************************************************************************)
(* Verification model of market-analyst-py.                                *)
(*                                                                         *)
(*   Part I   utils/data_retry.py     retry_with_backoff (sync and async   *)
(*            wrappers), with_timeout, retry_task                          *)
(*   Part II  utils/trading_calendar.py and analyzer/analyzer.py           *)
(*            (analyze_basis)                                              *)
(*   Part III utils/data_validator.py (MarketDataValidator)                *)
(*                                                                         *)
(* SpecRetry runs one invocation of sync_wrapper and one of async_wrapper  *)
(* on the same configuration and the same per-attempt outcomes.            *)
(* SpecBasis applies analyze_basis to bounded inputs at a bounded set of   *)
(* evaluation instants.  SpecBasisClock calls it twice on one input while  *)
(* the clock runs, with contract types the calendar does not know among    *)
(* the keys.  SpecCalendar applies the calendar functions to every day of  *)
(* a walk through the calendar.  SpecValidate applies                      *)
(* validate_market_data to bounded lists of items.                         *)
(***************************************************************************)
EXTENDS Integers, Sequences, FiniteSets, TLC

VARIABLES
    cfg,            \* retry configuration of the decorator in use
    outcomes,       \* outcome of the wrapped operation at attempt 1, 2, ...
    sync,           \* the invocation of sync_wrapper
    async,          \* the invocation of async_wrapper
    now,            \* evaluation instant read by datetime.now(): [day, tod]
    market_data,    \* analyze_basis input: list of spot items
    futures_data,   \* analyze_basis input: ordered mapping code -> contracts
    basis_out,      \* what analyze_basis produced: [tag, results]
    basis_prev,     \* what the call of analyze_basis before that produced
    cal,            \* trading_calendar functions: arguments and results
    valid_in,       \* validate_market_data argument: list of items
    valid_out,      \* validate_market_data result: [tag, errors, warnings]
    quality,        \* generate_quality_report: arguments and result
    run             \* AShareAnalyzer.run_full: position, collaborators, result

vars == <<cfg, outcomes, sync, async, now, market_data, futures_data, basis_out,
          basis_prev, cal, valid_in, valid_out, quality, run>>

retryVars == <<cfg, outcomes, sync, async>>
basisVars == <<now, market_data, futures_data, basis_out, basis_prev>>
calVars == <<cal>>
validVars == <<valid_in, valid_out>>
qualityVars == <<quality>>
pipeVars == <<run>>

(***************************************************************************)
(* Part I.  utils/data_retry.py                                            *)
(***************************************************************************)

MAX_RETRIES == 3
BASE_DELAY == 10
DEFAULT_BACKOFF_FACTOR == 2
TASK_MAX_RETRIES == 3

\* Largest max_retries explored for retry_with_backoff (smallest is -1).
MaxAttempts == 3

\* base_delay and backoff_factor values explored besides the defaults.
OtherBaseDelay == 1
OtherBackoffFactor == 3

\* Exception classes that matter here and their direct base class.
\* CancelledError derives from BaseException, not from Exception.
ExcParent ==
    [ TimeoutError    |-> "OSError",
      ConnectionError |-> "OSError",
      OSError         |-> "Exception",
      ValueError      |-> "Exception",
      RetryError      |-> "Exception",
      Exception       |-> "BaseException",
      CancelledError  |-> "BaseException",
      BaseException   |-> "object" ]

RECURSIVE IsSubclass(_, _)
IsSubclass(c, base) ==
    IF c = base THEN TRUE
    ELSE IF c \notin DOMAIN ExcParent THEN FALSE
    ELSE IsSubclass(ExcParent[c], base)

\* `except exceptions as e` catches e iff it is an instance of a listed class.
CaughtMutBare(kind, exceptions) == TRUE
Caught(kind, exceptions) == \E c \in exceptions : IsSubclass(kind, c)

\* Failure kinds the wrapped operation raises in the model, and "ok".
FailureKinds == {"TimeoutError", "OSError", "ValueError"}
Outcomes == {"ok"} \cup FailureKinds

\* exceptions=(Exception,): the default of retry_with_backoff.
DefaultExceptions == {"Exception"}
\* exceptions=(TimeoutError, ConnectionError, OSError): what retry_task passes.
TaskExceptionsMutAll == {"Exception"}
TaskExceptions == {"TimeoutError", "ConnectionError", "OSError"}
\* a caller-supplied tuple narrower than both.
CustomExceptions == {"TimeoutError"}

RECURSIVE Pow(_, _)
Pow(b, e) == IF e <= 0 THEN 1 ELSE b * Pow(b, e - 1)

NoError == <<"None", 0>>
NoResult == [tag |-> "none", exc |-> "None", cause |-> NoError]

\* An invocation of a wrapper before its first statement has run.
NewInvocation ==
    [ pc         |-> "loop",     \* loop | call | sleep | done
      attempt    |-> 0,          \* the loop variable
      last_error |-> NoError,
      trace      |-> << >>,      \* <<"call", k>> and <<"sleep", delay>> events
      inflight   |-> 0,          \* attempts of func started and not finished
      cancel_at  |-> "no",       \* where the caller's cancellation hit, if any
      result     |-> NoResult ]

\* return func(*args, **kwargs)
ReturnValueMutRetryError(w) ==
    [tag |-> "raise", exc |-> "RetryError", cause |-> <<"ok", w.attempt>>]
ReturnValue(w) ==
    [tag |-> "return", exc |-> "None", cause |-> <<"ok", w.attempt>>]

Propagated(kind, w) ==
    [tag |-> "raise", exc |-> kind, cause |-> <<kind, w.attempt>>]

(* ------------------------- sync_wrapper -------------------------------- *)

\* delay = base_delay * (backoff_factor ** (attempt - 1))
SyncDelayMutExponent(c, attempt) == c.base_delay * Pow(c.backoff_factor, attempt)
SyncDelay(c, attempt) == c.base_delay * Pow(c.backoff_factor, attempt - 1)

\* raise RetryError(f"...{last_error}") after the loop
SyncExhaustedMutNoCause(w) ==
    [tag |-> "raise", exc |-> "RetryError", cause |-> NoError]
SyncExhausted(w) ==
    [tag |-> "raise", exc |-> "RetryError", cause |-> w.last_error]

\* for attempt in range(1, max_retries + 1): the next iteration calls func,
\* an exhausted range falls through to the raise after the loop.
SyncForMutNoRaise(c, w) ==
    IF w.attempt + 1 <= c.max_retries
    THEN [w EXCEPT !.attempt = w.attempt + 1,
                   !.pc = "call",
                   !.inflight = w.inflight + 1,
                   !.trace = Append(w.trace, <<"call", w.attempt + 1>>)]
    ELSE [w EXCEPT !.pc = "done",
                   !.result = [tag |-> "return", exc |-> "None", cause |-> NoError]]
SyncFor(c, w) ==
    IF w.attempt + 1 <= c.max_retries
    THEN [w EXCEPT !.attempt = w.attempt + 1,
                   !.pc = "call",
                   !.inflight = w.inflight + 1,
                   !.trace = Append(w.trace, <<"call", w.attempt + 1>>)]
    ELSE [w EXCEPT !.pc = "done", !.result = SyncExhausted(w)]

\* try: return func(...)  except exceptions as e: ...
SyncTry(c, w, outcome) ==
    IF outcome = "ok"
    THEN [w EXCEPT !.pc = "done", !.inflight = w.inflight - 1,
                   !.result = ReturnValue(w)]
    ELSE IF Caught(outcome, c.exceptions)
    THEN IF w.attempt < c.max_retries
         THEN [w EXCEPT !.pc = "sleep", !.inflight = w.inflight - 1,
                        !.last_error = <<outcome, w.attempt>>,
                        !.trace = Append(w.trace,
                                         <<"sleep", SyncDelay(c, w.attempt)>>)]
         ELSE [w EXCEPT !.pc = "loop", !.inflight = w.inflight - 1,
                        !.last_error = <<outcome, w.attempt>>]
    ELSE [w EXCEPT !.pc = "done", !.inflight = w.inflight - 1,
                   !.result = Propagated(outcome, w)]

(* ------------------------- async_wrapper ------------------------------- *)

\* delay = base_delay * (backoff_factor ** (attempt - 1))
AsyncDelayMutLinear(c, attempt) == c.base_delay * c.backoff_factor * (attempt - 1)
AsyncDelay(c, attempt) == c.base_delay * Pow(c.backoff_factor, attempt - 1)

\* raise RetryError(f"...{last_error}") after the loop
AsyncExhausted(w) ==
    [tag |-> "raise", exc |-> "RetryError", cause |-> w.last_error]

\* The coroutine runs its for statement only when it is not suspended in an
\* await: `await func(...)` and `await asyncio.sleep(delay)` both complete
\* before the statement after them runs.
AsyncResumableMutNoAwait(w) == w.pc \in {"loop", "call"}
AsyncResumable(w) == w.pc = "loop"

AsyncFor(c, w) ==
    IF w.attempt + 1 <= c.max_retries
    THEN [w EXCEPT !.attempt = w.attempt + 1,
                   !.pc = "call",
                   !.inflight = w.inflight + 1,
                   !.trace = Append(w.trace, <<"call", w.attempt + 1>>)]
    ELSE [w EXCEPT !.pc = "done", !.result = AsyncExhausted(w)]

\* try: return await func(...)  except exceptions as e: ...
AsyncTry(c, w, outcome) ==
    IF outcome = "ok"
    THEN [w EXCEPT !.pc = "done", !.inflight = w.inflight - 1,
                   !.result = ReturnValue(w)]
    ELSE IF Caught(outcome, c.exceptions)
    THEN IF w.attempt < c.max_retries
         THEN [w EXCEPT !.pc = "sleep", !.inflight = w.inflight - 1,
                        !.last_error = <<outcome, w.attempt>>,
                        !.trace = Append(w.trace,
                                         <<"sleep", AsyncDelay(c, w.attempt)>>)]
         ELSE [w EXCEPT !.pc = "loop", !.inflight = w.inflight - 1,
                        !.last_error = <<outcome, w.attempt>>]
    ELSE [w EXCEPT !.pc = "done", !.inflight = w.inflight - 1,
                   !.result = Propagated(outcome, w)]

\* CancelledError thrown into the coroutine at its current await.  At the
\* sleep it is raised inside the except block, outside any try, so nothing
\* in the wrapper handles it; at the call it passes `except exceptions`
\* unless a listed class is a base of CancelledError.  A caller that went
\* through with_timeout sees wait_for's timeout as TimeoutError.
AsyncCancelledMutSwallow(c, w, how) == [w EXCEPT !.pc = "loop"]
AsyncCancelled(c, w, how) ==
    IF w.pc = "call" /\ Caught("CancelledError", c.exceptions)
    THEN AsyncTry(c, w, "CancelledError")
    ELSE [w EXCEPT !.pc = "done",
                   !.inflight = IF w.pc = "call" THEN w.inflight - 1
                                ELSE w.inflight,
                   !.result = [tag |-> "raise",
                               exc |-> IF how = "timeout" THEN "TimeoutError"
                                       ELSE "CancelledError",
                               cause |-> <<"cancelled", w.attempt>>]]

RECURSIVE SeqsOfLen(_, _)
SeqsOfLen(S, n) ==
    IF n <= 0 THEN { << >> }
    ELSE { Append(s, x) : s \in SeqsOfLen(S, n - 1), x \in S }

\* retry_with_backoff(max_retries, base_delay, backoff_factor, exceptions)
BackoffConfigs ==
    [ decorator      : {"retry_with_backoff"},
      max_retries    : (-1 .. MaxAttempts) \cup {MAX_RETRIES},
      base_delay     : {BASE_DELAY, OtherBaseDelay},
      backoff_factor : {DEFAULT_BACKOFF_FACTOR, OtherBackoffFactor},
      exceptions     : {DefaultExceptions, CustomExceptions} ]

\* retry_task(task_type): max_retries from RetryConfig, the rest defaulted
\* except exceptions.
TaskConfigs ==
    [ decorator      : {"retry_task"},
      max_retries    : {TASK_MAX_RETRIES},
      base_delay     : {BASE_DELAY},
      backoff_factor : {DEFAULT_BACKOFF_FACTOR},
      exceptions     : {TaskExceptions} ]

BasisIdle ==
    /\ now = [day |-> 0, tod |-> 0]
    /\ market_data = << >>
    /\ futures_data = << >>
    /\ basis_out = [tag |-> "none", results |-> << >>, at |-> now]
    /\ basis_prev = basis_out

RetryIdle ==
    /\ cfg = [decorator |-> "none", max_retries |-> 0, base_delay |-> 0,
              backoff_factor |-> 0, exceptions |-> {}]
    /\ outcomes = << >>
    /\ sync = [NewInvocation EXCEPT !.pc = "done"]
    /\ async = [NewInvocation EXCEPT !.pc = "done"]

CalIdle == cal = [pc |-> "idle"]

ValidIdle ==
    /\ valid_in = << >>
    /\ valid_out = [tag |-> "idle", errors |-> << >>, warnings |-> << >>]

QualityIdle == quality = [pc |-> "idle"]

PipeIdle == run = [pc |-> "idle"]

InitRetry ==
    /\ cfg \in BackoffConfigs \cup TaskConfigs
    /\ outcomes \in SeqsOfLen(Outcomes, cfg.max_retries)
    /\ sync = NewInvocation
    /\ async = NewInvocation
    /\ BasisIdle
    /\ CalIdle
    /\ ValidIdle
    /\ QualityIdle
    /\ PipeIdle

SyncIterate ==
    /\ sync.pc = "loop"
    /\ sync' = SyncFor(cfg, sync)
    /\ UNCHANGED <<cfg, outcomes, async, basisVars, calVars, validVars, qualityVars, pipeVars>>

SyncReturned ==
    /\ sync.pc = "call"
    /\ sync' = SyncTry(cfg, sync, outcomes[sync.attempt])
    /\ UNCHANGED <<cfg, outcomes, async, basisVars, calVars, validVars, qualityVars, pipeVars>>

\* time.sleep(delay) returned
SyncWoken ==
    /\ sync.pc = "sleep"
    /\ sync' = [sync EXCEPT !.pc = "loop"]
    /\ UNCHANGED <<cfg, outcomes, async, basisVars, calVars, validVars, qualityVars, pipeVars>>

AsyncIterate ==
    /\ AsyncResumable(async)
    /\ async' = AsyncFor(cfg, async)
    /\ UNCHANGED <<cfg, outcomes, sync, basisVars, calVars, validVars, qualityVars, pipeVars>>

AsyncReturned ==
    /\ async.pc = "call"
    /\ async.inflight > 0
    /\ async' = AsyncTry(cfg, async, outcomes[async.attempt])
    /\ UNCHANGED <<cfg, outcomes, sync, basisVars, calVars, validVars, qualityVars, pipeVars>>

\* await asyncio.sleep(delay) completed
AsyncWoken ==
    /\ async.pc = "sleep"
    /\ async' = [async EXCEPT !.pc = "loop"]
    /\ UNCHANGED <<cfg, outcomes, sync, basisVars, calVars, validVars, qualityVars, pipeVars>>

\* task.cancel() by the caller, or with_timeout's wait_for expiring, while
\* the coroutine is suspended in `await func(...)` or `await asyncio.sleep`.
AsyncCancel ==
    /\ async.pc \in {"call", "sleep"}
    /\ \E how \in {"cancel", "timeout"} :
           async' = [AsyncCancelled(cfg, async, how)
                        EXCEPT !.cancel_at = async.pc]
    /\ UNCHANGED <<cfg, outcomes, sync, basisVars, calVars, validVars, qualityVars, pipeVars>>

NextRetry ==
    \/ SyncIterate
    \/ SyncReturned
    \/ SyncWoken
    \/ AsyncIterate
    \/ AsyncReturned
    \/ AsyncWoken
    \/ AsyncCancel

SpecRetry == InitRetry /\ [][NextRetry]_vars

(***************************************************************************)
(* Properties of Part I                                                    *)
(***************************************************************************)

CallCount(t) == Cardinality({i \in 1..Len(t) : t[i][1] = "call"})
SleepCount(t) == Cardinality({i \in 1..Len(t) : t[i][1] = "sleep"})
IsPrefix(s, t) == Len(s) <= Len(t) /\ \A i \in 1..Len(s) : s[i] = t[i]

\* The failure kinds the configured predicate selects as retryable, written
\* out class by class.
RetryableKinds ==
    IF cfg.exceptions = {"Exception"} THEN {"TimeoutError", "OSError", "ValueError"}
    ELSE IF cfg.exceptions = {"TimeoutError"} THEN {"TimeoutError"}
    ELSE {"TimeoutError", "OSError"}

AllAttemptsFailRetryable ==
    /\ cfg.max_retries >= 1
    /\ \A k \in 1..cfg.max_retries : outcomes[k] \in RetryableKinds

\* call 1, sleep d, call 2, sleep d*f, ..., call n
ExhaustionTrace(n, d, f) ==
    [ i \in 1..(2 * n - 1) |->
        IF i % 2 = 1 THEN <<"call", (i + 1) \div 2>>
        ELSE <<"sleep", d * Pow(f, (i \div 2) - 1)>> ]

\* C1: with max_retries = n >= 1 and every attempt failing retryably,
\* sync_wrapper makes exactly n attempts and n-1 waits, the k-th wait lasting
\* base_delay * backoff_factor^(k-1) between attempt k and attempt k+1, makes
\* no wait after attempt n and ends in RetryError; with n=3, d=10, f=2 the
\* waits are 10 then 20.
C1_ExhaustionSchedule ==
    AllAttemptsFailRetryable =>
        LET expected == ExhaustionTrace(cfg.max_retries, cfg.base_delay,
                                        cfg.backoff_factor)
        IN  /\ IsPrefix(sync.trace, expected)
            /\ sync.pc = "done" =>
                 /\ sync.trace = expected
                 /\ CallCount(sync.trace) = cfg.max_retries
                 /\ SleepCount(sync.trace) = cfg.max_retries - 1
                 /\ sync.result.tag = "raise"
                 /\ sync.result.exc = "RetryError"
                 /\ (cfg.max_retries = 3 /\ cfg.base_delay = 10
                       /\ cfg.backoff_factor = 2) =>
                        sync.trace = << <<"call", 1>>, <<"sleep", 10>>,
                                        <<"call", 2>>, <<"sleep", 20>>,
                                        <<"call", 3>> >>

C1_Witness ==
    /\ AllAttemptsFailRetryable
    /\ cfg.max_retries = 3 /\ cfg.base_delay = 10 /\ cfg.backoff_factor = 2
    /\ sync.pc = "done"
    /\ sync.result.exc = "RetryError"
    /\ SleepCount(sync.trace) = 2

\* Attempt k is the first whose failure the predicate does not select.
FirstNonRetryableAt(k) ==
    /\ k \in 1..Len(outcomes)
    /\ outcomes[k] \in FailureKinds \ RetryableKinds
    /\ \A j \in 1..(k - 1) : outcomes[j] \in RetryableKinds

\* C2: a failure the predicate does not select reaches the caller of
\* sync_wrapper unchanged (not as RetryError), with no wait after it and no
\* further attempt; on the first attempt: one attempt, zero waits.
C2_NonRetryablePropagates ==
    \A k \in 1..Len(outcomes) :
        FirstNonRetryableAt(k) =>
            /\ sync.attempt <= k
            /\ CallCount(sync.trace) <= k
            /\ SleepCount(sync.trace) <= k - 1
            /\ sync.pc = "done" =>
                 /\ sync.result = [tag |-> "raise", exc |-> outcomes[k],
                                   cause |-> <<outcomes[k], k>>]
                 /\ sync.result.exc # "RetryError"
                 /\ CallCount(sync.trace) = k
                 /\ SleepCount(sync.trace) = k - 1
                 /\ sync.trace[Len(sync.trace)] = <<"call", k>>

C2_Witness ==
    /\ FirstNonRetryableAt(1)
    /\ sync.pc = "done"
    /\ sync.trace = << <<"call", 1>> >>
    /\ sync.result.exc = outcomes[1]

\* C3 as stated: under the default configuration of retry_with_backoff (no
\* exceptions argument) a ValueError raised by the operation is never
\* retried and propagates after a single attempt.
C3_DefaultNeverRetriesValueError ==
    ( /\ cfg.decorator = "retry_with_backoff"
      /\ cfg.exceptions = {"Exception"}
      /\ Len(outcomes) >= 1
      /\ outcomes[1] = "ValueError"
      /\ sync.pc = "done" ) =>
        /\ sync.result.exc = "ValueError"
        /\ sync.trace = << <<"call", 1>> >>

\* C3 as amended: under retry_task only TimeoutError / ConnectionError /
\* OSError failures are retried and a ValueError propagates at once, with no
\* wait after it; under retry_with_backoff's own default, exceptions =
\* (Exception,), a ValueError is retried like any other failure.
C3_TaskPresetNeverRetriesValueError ==
    /\ cfg.decorator = "retry_task" =>
         /\ \A i \in 1..Len(sync.trace) :
                sync.trace[i][1] = "sleep" =>
                    outcomes[sync.trace[i - 1][2]] \in {"TimeoutError", "OSError"}
         /\ \A k \in 1..Len(outcomes) :
                ( /\ outcomes[k] = "ValueError"
                  /\ \A j \in 1..(k - 1) : outcomes[j] \in {"TimeoutError", "OSError"}
                  /\ sync.pc = "done" ) =>
                    /\ sync.result = [tag |-> "raise", exc |-> "ValueError",
                                      cause |-> <<"ValueError", k>>]
                    /\ CallCount(sync.trace) = k
                    /\ sync.trace[Len(sync.trace)] = <<"call", k>>
    /\ ( /\ cfg.decorator = "retry_with_backoff"
         /\ cfg.exceptions = {"Exception"}
         /\ cfg.max_retries >= 2
         /\ outcomes[1] = "ValueError"
         /\ sync.pc = "done" ) =>
           /\ CallCount(sync.trace) >= 2
           /\ sync.result.exc # "ValueError"

C3_Witness ==
    /\ cfg.decorator = "retry_task"
    /\ outcomes[1] = "ValueError"
    /\ sync.pc = "done"
    /\ sync.result.exc = "ValueError"
    /\ sync.trace = << <<"call", 1>> >>

\* C4: a cancellation (or with_timeout expiry) that hits async_wrapper in
\* the wait between two attempts ends the invocation with a cancellation
\* failure, never RetryError, and no attempt is started after it.
C4_CancelDuringWait ==
    async.cancel_at = "sleep" =>
        /\ async.pc = "done"
        /\ async.result.tag = "raise"
        /\ async.result.exc \in {"CancelledError", "TimeoutError"}
        /\ async.result.cause[1] = "cancelled"
        /\ async.result.exc # "RetryError"
        /\ async.inflight = 0
        /\ async.trace[Len(async.trace)][1] = "sleep"
        /\ CallCount(async.trace) = async.attempt
        /\ async.attempt < cfg.max_retries

C4_Witness ==
    /\ async.cancel_at = "sleep"
    /\ async.attempt = 1
    /\ cfg.max_retries = 3
    /\ async.result.exc = "CancelledError"

\* C5: when all max_retries attempts fail retryably, the RetryError raised
\* by sync_wrapper carries the failure of the last attempt.
C5_ExhaustedCarriesLastFailure ==
    (AllAttemptsFailRetryable /\ sync.pc = "done") =>
        /\ sync.result.exc = "RetryError"
        /\ sync.result.cause = <<outcomes[cfg.max_retries], cfg.max_retries>>

C5_Witness ==
    /\ AllAttemptsFailRetryable
    /\ cfg.max_retries >= 2
    /\ outcomes[1] # outcomes[cfg.max_retries]
    /\ sync.pc = "done"
    /\ sync.result.cause[1] = outcomes[cfg.max_retries]

\* C6: on the same configuration and per-attempt outcomes, sync_wrapper and
\* an uncancelled async_wrapper make the same attempts, the same waits and
\* end in the same outcome.
C6_SyncAsyncAgree ==
    async.cancel_at = "no" =>
        /\ IsPrefix(sync.trace, async.trace) \/ IsPrefix(async.trace, sync.trace)
        /\ (sync.pc = "done" /\ async.pc = "done") =>
             /\ sync.trace = async.trace
             /\ sync.result = async.result

C6_Witness ==
    /\ async.cancel_at = "no"
    /\ sync.pc = "done" /\ async.pc = "done"
    /\ SleepCount(async.trace) = 2
    /\ async.result.tag = "return"
    /\ sync.result = async.result

\* Every call k+1 in the trace comes right after the wait that follows call k.
SequentialTrace(t) ==
    \A i \in 1..Len(t) :
        t[i][1] = "call" =>
            \/ i = 1 /\ t[i][2] = 1
            \/ i >= 3 /\ t[i - 1][1] = "sleep" /\ t[i - 2] = <<"call", t[i][2] - 1>>

\* C7: within one invocation of async_wrapper at most one attempt is in
\* progress, and attempt k+1 starts only after attempt k finished and the
\* wait after it completed.
C7_AttemptsSequential ==
    /\ async.inflight \in {0, 1}
    /\ (async.inflight = 1) <=> (async.pc = "call")
    /\ SequentialTrace(async.trace)

C7_Witness ==
    /\ async.pc = "call"
    /\ async.attempt = 2
    /\ async.inflight = 1

(***************************************************************************)
(* Part II.  utils/trading_calendar.py                                     *)
(*                                                                         *)
(* A datetime is [year, month, day, tod]; tod is 0 at midnight and 1 at    *)
(* any later time of the day (datetime.now() almost always has tod = 1,    *)
(* the expiry dates built by datetime(year, month, 1) + timedelta have     *)
(* tod = 0).  Comparison is the lexicographic one of datetime.             *)
(***************************************************************************)

HOLIDAYS_2026 ==
    { "2026-01-01", "2026-01-28", "2026-01-29", "2026-01-30", "2026-01-31",
      "2026-02-01", "2026-02-02", "2026-02-03", "2026-02-14", "2026-02-15",
      "2026-04-04", "2026-04-05", "2026-04-06", "2026-05-01", "2026-05-02",
      "2026-05-03", "2026-05-04", "2026-05-05", "2026-06-19", "2026-06-20",
      "2026-06-21", "2026-10-01", "2026-10-02", "2026-10-03", "2026-10-04",
      "2026-10-05", "2026-10-06", "2026-10-07", "2026-10-10" }

Datetime(y, m, d, t) == [year |-> y, month |-> m, day |-> d, tod |-> t]

IsLeap(y) == (y % 4 = 0) /\ ((y % 100 # 0) \/ (y % 400 = 0))

DaysInMonth(y, m) ==
    IF m = 2 THEN (IF IsLeap(y) THEN 29 ELSE 28)
    ELSE IF m \in {4, 6, 9, 11} THEN 30 ELSE 31

RECURSIVE DaysBeforeMonth(_, _)
DaysBeforeMonth(y, m) ==
    IF m <= 1 THEN 0 ELSE DaysBeforeMonth(y, m - 1) + DaysInMonth(y, m - 1)

\* datetime.toordinal(): days since 0001-01-01 (which is day 1)
ToOrdinal(dt) ==
    LET y == dt.year - 1
    IN  y * 365 + (y \div 4) - (y \div 100) + (y \div 400)
          + DaysBeforeMonth(dt.year, dt.month) + dt.day

\* datetime.weekday(): Monday 0 ... Sunday 6
Weekday(dt) == (ToOrdinal(dt) + 6) % 7

\* dt + timedelta(days=1)
NextDay(dt) ==
    IF dt.day < DaysInMonth(dt.year, dt.month)
    THEN [dt EXCEPT !.day = dt.day + 1]
    ELSE IF dt.month < 12
    THEN [dt EXCEPT !.day = 1, !.month = dt.month + 1]
    ELSE [dt EXCEPT !.day = 1, !.month = 1, !.year = dt.year + 1]

\* dt + timedelta(days=n), n >= 0
RECURSIVE AddDays(_, _)
AddDays(dt, n) == IF n <= 0 THEN dt ELSE AddDays(NextDay(dt), n - 1)

\* a <= b on datetimes
DatetimeLE(a, b) ==
    LET ka == <<a.year, a.month, a.day, a.tod>>
        kb == <<b.year, b.month, b.day, b.tod>>
    IN  \/ ka = kb
        \/ \E i \in 1..4 : ka[i] < kb[i] /\ \A j \in 1..(i - 1) : ka[j] = kb[j]

Pad(n, width) ==
    LET str == ToString(n)
    IN  IF Len(str) >= width THEN str
        ELSE IF Len(str) = width - 1 THEN "0" \o str
        ELSE IF Len(str) = width - 2 THEN "00" \o str
        ELSE "000" \o str

\* date.strftime("%Y-%m-%d")
Strftime(dt) == Pad(dt.year, 4) \o "-" \o Pad(dt.month, 2) \o "-" \o Pad(dt.day, 2)

is_weekendMutSundayOnly(dt) == Weekday(dt) >= 6
is_weekend(dt) == Weekday(dt) >= 5

is_holiday(dt) == Strftime(dt) \in HOLIDAYS_2026

is_trading_day(dt) ==
    IF is_weekend(dt) THEN FALSE
    ELSE IF is_holiday(dt) THEN FALSE
    ELSE TRUE

\* count = 0; current = start; while current <= end: ...; current += 1 day
RECURSIVE get_trading_days_between(_, _)
get_trading_days_betweenMutExclusive(start_date, end_date) ==
    IF ~DatetimeLE(start_date, end_date) \/ start_date = end_date THEN 0
    ELSE (IF is_trading_day(start_date) THEN 1 ELSE 0)
           + get_trading_days_between(NextDay(start_date), end_date)
get_trading_days_between(start_date, end_date) ==
    IF ~DatetimeLE(start_date, end_date) THEN 0
    ELSE (IF is_trading_day(start_date) THEN 1 ELSE 0)
           + get_trading_days_between(NextDay(start_date), end_date)

get_futures_expiry_dateMutSkipsFirstDay(year, month) ==
    LET first_day == Datetime(year, month, 1, 0)
        days_until_friday == ((3 - Weekday(first_day)) % 7) + 1
        first_friday == AddDays(first_day, days_until_friday)
    IN  AddDays(first_friday, 14)
get_futures_expiry_date(year, month) ==
    LET first_day == Datetime(year, month, 1, 0)
        days_until_friday == (4 - Weekday(first_day)) % 7
        first_friday == AddDays(first_day, days_until_friday)
    IN  AddDays(first_friday, 14)

ContractTypes == {"CurrentMonth", "NextQuarter", "FarQuarter"}

\* How a call ends: with the value it returns, or with the exception it
\* raises (value is then empty).
Returns(v) == [exc |-> "None", value |-> <<v>>]
Raises(e) == [exc |-> e, value |-> << >>]

get_contract_expiryMutLateWrap(contract_type, year, month) ==
    IF contract_type = "CurrentMonth"
    THEN Returns(get_futures_expiry_date(year, month))
    ELSE IF contract_type = "NextQuarter"
    THEN IF month = 12 THEN Returns(get_futures_expiry_date(year + 1, 1))
         ELSE Returns(get_futures_expiry_date(year, month + 1))
    ELSE IF contract_type = "FarQuarter"
    THEN IF month >= 12 THEN Returns(get_futures_expiry_date(year + 1, month - 10))
         ELSE Returns(get_futures_expiry_date(year, month + 2))
    ELSE Raises("ValueError")
get_contract_expiryMutFallthrough(contract_type, year, month) ==
    IF contract_type = "CurrentMonth"
    THEN Returns(get_futures_expiry_date(year, month))
    ELSE IF contract_type = "NextQuarter"
    THEN IF month = 12 THEN Returns(get_futures_expiry_date(year + 1, 1))
         ELSE Returns(get_futures_expiry_date(year, month + 1))
    ELSE IF month >= 11 THEN Returns(get_futures_expiry_date(year + 1, month - 10))
         ELSE Returns(get_futures_expiry_date(year, month + 2))
get_contract_expiry(contract_type, year, month) ==
    IF contract_type = "CurrentMonth"
    THEN Returns(get_futures_expiry_date(year, month))
    ELSE IF contract_type = "NextQuarter"
    THEN IF month = 12 THEN Returns(get_futures_expiry_date(year + 1, 1))
         ELSE Returns(get_futures_expiry_date(year, month + 1))
    ELSE IF contract_type = "FarQuarter"
    THEN IF month >= 11 THEN Returns(get_futures_expiry_date(year + 1, month - 10))
         ELSE Returns(get_futures_expiry_date(year, month + 2))
    ELSE Raises("ValueError")

\* no try/except: an exception of get_contract_expiry leaves the function
get_trading_days_to_expiry(contract_type, from_date) ==
    LET expiry == get_contract_expiry(contract_type, from_date.year,
                                      from_date.month)
    IN  IF expiry.exc # "None" THEN expiry
        ELSE Returns(get_trading_days_between(from_date, expiry.value[1]))

(* ------------------ the calendar functions, day by day ------------------ *)
(* SpecCalendar applies the functions of trading_calendar.py to every day  *)
(* of a walk that starts on the first day of a month.  Next to the         *)
(* arguments and results, cal keeps what the walk itself has seen: the day *)
(* of the week counted on from the first day (dow), the Fridays of the     *)
(* current month so far (fridays, third_friday) and the trading days among *)
(* the days walked from start's date on (counted).                         *)

\* Days walked from the first day.
CalDays == 125

\* First days of a walk, with their weekday (Monday 0 ... Sunday 6).
CalFirstDays ==
    { [date |-> Datetime(2025, 11, 1, 0), dow |-> 5],
      [date |-> Datetime(2026, 4, 1, 0),  dow |-> 2],
      [date |-> Datetime(2026, 9, 1, 0),  dow |-> 1],
      [date |-> Datetime(2028, 1, 1, 0),  dow |-> 5] }

\* start_date of get_trading_days_between: the first day of the walk or the
\* fifth day after it, at midnight or later in the day.
CalStartDates(first) ==
    { [AddDays(first, k) EXCEPT !.tod = t] : k \in {0, 5}, t \in {0, 1} }

InitCalendar ==
    /\ RetryIdle
    /\ BasisIdle
    /\ ValidIdle
    /\ QualityIdle
    /\ PipeIdle
    /\ \E first \in CalFirstDays : \E start \in CalStartDates(first.date) :
           cal = [ pc           |-> "args",
                   date         |-> first.date,
                   start        |-> start,
                   steps        |-> 0,
                   dow          |-> first.dow,
                   fridays      |-> IF first.dow = 4 THEN 1 ELSE 0,
                   third_friday |-> 0,
                   counted      |-> 0,
                   out          |-> << >> ]

\* The functions applied to the day of the walk.
CalResults(date, start) ==
    [ trading |-> is_trading_day(date),
      between |-> get_trading_days_between(start, date),
      expiry  |-> get_futures_expiry_date(date.year, date.month),
      current |-> get_contract_expiry("CurrentMonth", date.year, date.month),
      next    |-> get_contract_expiry("NextQuarter", date.year, date.month),
      far     |-> get_contract_expiry("FarQuarter", date.year, date.month) ]

CalApply ==
    /\ cal.pc = "args"
    /\ LET out == CalResults(cal.date, cal.start)
           in_range == DatetimeLE([cal.start EXCEPT !.tod = 0], cal.date)
       IN  cal' = [cal EXCEPT
                     !.pc = "applied",
                     !.out = << out >>,
                     !.counted = @ + (IF in_range /\ out.trading THEN 1 ELSE 0)]
    /\ UNCHANGED <<retryVars, basisVars, validVars, qualityVars, pipeVars>>

CalNextDay ==
    /\ cal.pc = "applied"
    /\ cal.steps < CalDays
    /\ LET date == NextDay(cal.date)
           dow == (cal.dow + 1) % 7
           fridays == (IF date.day = 1 THEN 0 ELSE cal.fridays)
                        + (IF dow = 4 THEN 1 ELSE 0)
       IN  cal' = [cal EXCEPT
                     !.pc = "args",
                     !.date = date,
                     !.steps = @ + 1,
                     !.dow = dow,
                     !.fridays = fridays,
                     !.third_friday = IF date.day = 1 THEN 0
                                      ELSE IF dow = 4 /\ fridays = 3 THEN date.day
                                      ELSE @,
                     !.out = << >>]
    /\ UNCHANGED <<retryVars, basisVars, validVars, qualityVars, pipeVars>>

NextCalendar == CalApply \/ CalNextDay

SpecCalendar == InitCalendar /\ [][NextCalendar]_vars

(***************************************************************************)
(* Part II (continued).  analyzer/analyzer.py : Analyzer.analyze_basis     *)
(*                                                                         *)
(* Prices are integers (index points).  An optional value is a sequence of *)
(* length 0 (None / key absent) or 1.  The contract types are written      *)
(* CurrentMonth, NextQuarter, FarQuarter for the source's three Chinese    *)
(* strings.  basis, basis_percent and annualized_basis are kept in         *)
(* hundredths, i.e. as the integer 100 * round(x, 2); the division is the  *)
(* exact one, binary floating-point error is not modelled.                 *)
(***************************************************************************)

FUTURES_SPOT_MAP ==
    [ IF |-> "sh000300", IC |-> "sh000905", IM |-> "sh000852", IH |-> "sh000016" ]

INDEX_CODE_MAP ==
    [ sh000001 |-> "SSE Composite", sz399001 |-> "SZSE Component",
      sh000300 |-> "CSI 300", sh000905 |-> "CSI 500", sh000852 |-> "CSI 1000",
      sh000016 |-> "SSE 50", sh000688 |-> "STAR 50", sz399006 |-> "ChiNext" ]

\* Python truthiness of an optional number: None and 0 are falsy, any other
\* number, negative ones included, is truthy.
Truthy(opt) == Len(opt) = 1 /\ opt[1] # 0

\* round(num / den, 2) in hundredths, ties to even (Python 3 round).  The
\* quotient is taken in two steps to stay within 32-bit integers.
Round2MutHalfUp(num, den) ==
    LET n  == IF den < 0 THEN -num ELSE num
        d  == IF den < 0 THEN -den ELSE den
        q1 == n \div d
        r1 == n - q1 * d
        q2 == (r1 * 100) \div d
        r2 == r1 * 100 - q2 * d
        q  == q1 * 100 + q2
    IN  IF 2 * r2 < d THEN q ELSE q + 1
Round2(num, den) ==
    LET n  == IF den < 0 THEN -num ELSE num
        d  == IF den < 0 THEN -den ELSE den
        q1 == n \div d
        r1 == n - q1 * d
        q2 == (r1 * 100) \div d
        r2 == r1 * 100 - q2 * d
        q  == q1 * 100 + q2
    IN  IF 2 * r2 < d THEN q
        ELSE IF 2 * r2 > d THEN q + 1
        ELSE IF q % 2 = 0 THEN q ELSE q + 1

\* spot_prices after the loop over market_data['data'], read with
\* spot_prices.get(spot_code, 0): the last item of that code with a truthy
\* code and a truthy price, else 0.
RECURSIVE SpotPriceIn(_, _, _)
SpotPriceIn(items, spot_code, n) ==
    IF n = 0 \/ spot_code = "" THEN 0
    ELSE IF items[n].code = spot_code /\ Truthy(items[n].price)
    THEN items[n].price[1]
    ELSE SpotPriceIn(items, spot_code, n - 1)

\* FUTURES_SPOT_MAP.get(futures_code): "" stands for None
SpotCodeOf(futures_code) ==
    IF futures_code \in DOMAIN FUTURES_SPOT_MAP
    THEN FUTURES_SPOT_MAP[futures_code] ELSE ""

\* Evaluation days: each anchor day and the EvalSpan days after it.
EvalSpan == 2
EvalAnchors ==
    { Datetime(2026, 6, 18, 0), Datetime(2026, 12, 7, 0), Datetime(2026, 12, 17, 0) }
EvalInstants ==
    { [AddDays(a, k) EXCEPT !.tod = t] : a \in EvalAnchors, k \in 0..EvalSpan,
                                         t \in {0, 1} }

\* The keys a per-code contract mapping of the payload can carry: the three
\* recognized types and one the calendar does not know.
TypeKeys == ContractTypes \cup {"Weekly"}

\* get_trading_days_to_expiry(contract_type) as called at analyzer.py:173,
\* tabulated over the evaluation instants (datetime.now()) and the keys.
ToExpiryAt ==
    [ at \in EvalInstants |->
        [ ct \in TypeKeys |-> get_trading_days_to_expiry(ct, at) ] ]

\* trading_days = get_trading_days_to_expiry(contract_type) where the call
\* returns.
TradingDaysAtMutCalendar ==
    [ at \in EvalInstants |->
        [ ct \in ContractTypes |->
            ToOrdinal(get_contract_expiry(ct, at.year, at.month).value[1])
              - ToOrdinal(at) ] ]
TradingDaysAt ==
    [ at \in EvalInstants |->
        [ ct \in ContractTypes |-> ToExpiryAt[at][ct].value[1] ] ]

\* `if trading_days <= 0: trading_days = 15 if ... else (35 if ... else 70)`
FallbackDaysMutSwapped(contract_type, trading_days) ==
    IF trading_days <= 0
    THEN (IF contract_type = "CurrentMonth" THEN 35
          ELSE IF contract_type = "NextQuarter" THEN 15 ELSE 70)
    ELSE trading_days
FallbackDays(contract_type, trading_days) ==
    IF trading_days <= 0
    THEN (IF contract_type = "CurrentMonth" THEN 15
          ELSE IF contract_type = "NextQuarter" THEN 35 ELSE 70)
    ELSE trading_days

\* The dict appended to results for one contract.
BasisRecord(futures_code, spot_code, contract_type, futures_price, spot_price, at) ==
    LET basis == futures_price - spot_price
        trading_days ==
            FallbackDays(contract_type,
                         TradingDaysAt[at][contract_type])
    IN  [ index            |-> futures_code,
          index_name       |-> IF spot_code \in DOMAIN INDEX_CODE_MAP
                               THEN INDEX_CODE_MAP[spot_code] ELSE futures_code,
          contract         |-> contract_type,
          futures_price    |-> futures_price,
          spot_price       |-> spot_price,
          basis            |-> basis * 100,
          basis_percent    |-> Round2(basis * 100, spot_price),
          annualized_basis |-> Round2(basis * 100 * 365, spot_price * trading_days),
          trading_days     |-> trading_days ]

\* `if not contract_data: continue` / `if not futures_price: continue`
ContractSkipped(entry) ==
    \/ Len(entry.data) = 0
    \/ ~Truthy(entry.data)

\* inner loop: for contract_type, contract_data in contracts.items()
RECURSIVE ContractLoop(_, _, _, _, _, _)
ContractLoop(futures_code, spot_code, spot_price, contracts, i, at) ==
    IF i > Len(contracts) THEN << >>
    ELSE LET rest == ContractLoop(futures_code, spot_code, spot_price,
                                  contracts, i + 1, at)
         IN  IF ContractSkipped(contracts[i]) THEN rest
             ELSE << BasisRecord(futures_code, spot_code, contracts[i].type,
                                 contracts[i].data[1], spot_price, at) >> \o rest

\* outer loop: for futures_code, contracts in futures.items()
RECURSIVE FuturesLoop(_, _, _, _)
FuturesLoop(items, futures, i, at) ==
    IF i > Len(futures) THEN << >>
    ELSE LET spot_code == SpotCodeOf(futures[i].code)
             spot_price == SpotPriceIn(items, spot_code, Len(items))
             rest == FuturesLoop(items, futures, i + 1, at)
         IN  IF spot_price = 0 THEN rest
             ELSE ContractLoop(futures[i].code, spot_code, spot_price,
                               futures[i].contracts, 1, at) \o rest

\* get_trading_days_to_expiry is reached with a type get_contract_expiry
\* rejects: the ValueError leaves analyze_basis.
RaisesValueError(items, futures, at) ==
    \E i \in 1..Len(futures) :
        /\ SpotPriceIn(items, SpotCodeOf(futures[i].code), Len(items)) # 0
        /\ \E j \in 1..Len(futures[i].contracts) :
               /\ ~ContractSkipped(futures[i].contracts[j])
               /\ ToExpiryAt[at][futures[i].contracts[j].type].exc = "ValueError"

\* list.sort(key=annualized_basis, reverse=True): stable, descending.
\* Insert r behind every element whose key is >= its own.
RECURSIVE InsertDesc(_, _)
InsertDescMutUnstable(sorted, r) ==
    IF sorted = << >> THEN << r >>
    ELSE IF Head(sorted).annualized_basis > r.annualized_basis
    THEN << Head(sorted) >> \o InsertDesc(Tail(sorted), r)
    ELSE << r >> \o sorted
InsertDesc(sorted, r) ==
    IF sorted = << >> THEN << r >>
    ELSE IF Head(sorted).annualized_basis >= r.annualized_basis
    THEN << Head(sorted) >> \o InsertDesc(Tail(sorted), r)
    ELSE << r >> \o sorted

RECURSIVE SortDesc(_, _)
SortDesc(results, n) ==
    IF n = 0 THEN << >> ELSE InsertDesc(SortDesc(results, n - 1), results[n])

analyze_basis(market, futures, at) ==
    IF ~market.truthy \/ ~futures.truthy
    THEN [tag |-> "return", results |-> << >>, at |-> at]
    ELSE IF RaisesValueError(market.data, futures.data, at)
    THEN [tag |-> "raise", results |-> << >>, at |-> at]
    ELSE LET results == FuturesLoop(market.data, futures.data, 1, at)
         IN  [tag |-> "return", results |-> SortDesc(results, Len(results)),
              at |-> at]

(* ----------------------------- inputs ---------------------------------- *)

\* Most (code, contract type) quotes in one futures payload.
MaxQuotes == 2

SpotValues == { << >>, <<0>>, <<-4000>>, <<4000>> }
QuoteValues == { << >>, <<0>>, <<-4010>>, <<4000>>, <<4010>> }
FuturesCodes == {"IF", "IC"}

MarketInputs ==
    { [truthy |-> FALSE, data |-> << >>] } \cup
    { [truthy |-> TRUE,
       data |-> << [code |-> "sh000300", price |-> p],
                   [code |-> "sh000905", price |-> <<4000>>] >>] : p \in SpotValues }

\* ordered mappings type -> quote with k distinct keys
RECURSIVE ContractMappings(_)
ContractMappings(k) ==
    IF k = 0 THEN { << >> }
    ELSE { Append(m, [type |-> t, data |-> q]) :
             m \in ContractMappings(k - 1), t \in ContractTypes, q \in QuoteValues }

DistinctTypes(m) == \A i, j \in 1..Len(m) : m[i].type = m[j].type => i = j

MappingsOfLen ==
    [ k \in 0..MaxQuotes |-> { m \in ContractMappings(k) : DistinctTypes(m) } ]

\* ordered mappings code -> contracts with at most MaxQuotes quotes in all
FuturesPayloads ==
    { << >> } \cup
    UNION { { << [code |-> c, contracts |-> m] >> : m \in MappingsOfLen[k] } :
            c \in FuturesCodes, k \in 0..MaxQuotes } \cup
    UNION { { << [code |-> cc[1], contracts |-> m1],
                 [code |-> cc[2], contracts |-> m2] >> :
                m1 \in MappingsOfLen[kk[1]], m2 \in MappingsOfLen[kk[2]] } :
            cc \in { c \in FuturesCodes \X FuturesCodes : c[1] # c[2] },
            kk \in { k \in (0..MaxQuotes) \X (0..MaxQuotes) :
                       k[1] + k[2] <= MaxQuotes } }

FuturesInputs ==
    { [truthy |-> FALSE, data |-> << >>] } \cup
    { [truthy |-> TRUE, data |-> d] : d \in FuturesPayloads }

InitBasis ==
    /\ RetryIdle
    /\ now \in EvalInstants
    /\ market_data \in MarketInputs
    /\ futures_data \in FuturesInputs
    /\ basis_out = [tag |-> "none", results |-> << >>, at |-> now]
    /\ basis_prev = basis_out
    /\ CalIdle
    /\ ValidIdle
    /\ QualityIdle
    /\ PipeIdle

\* results = analyzer.analyze_basis(market_data, futures_data), with
\* datetime.now() read inside get_trading_days_to_expiry
AnalyzeBasis ==
    /\ basis_out.tag = "none"
    /\ basis_out' = analyze_basis(market_data, futures_data, now)
    /\ UNCHANGED <<retryVars, now, market_data, futures_data, basis_prev,
                   calVars, validVars, qualityVars, pipeVars>>

NextBasis == AnalyzeBasis

SpecBasis == InitBasis /\ [][NextBasis]_vars

(* ------------- two calls on one input while the clock runs -------------- *)

ClockQuotes == { << >>, <<4000>>, <<4010>> }

\* ordered mappings key -> quote with k keys, any key of TypeKeys
RECURSIVE KeyMappings(_)
KeyMappings(k) ==
    IF k = 0 THEN { << >> }
    ELSE { Append(m, [type |-> t, data |-> q]) :
             m \in KeyMappings(k - 1), t \in TypeKeys, q \in ClockQuotes }

ClockPayloads ==
    UNION { { << [code |-> "IF", contracts |-> m] >> :
                m \in { km \in KeyMappings(k) : DistinctTypes(km) } } :
            k \in 0..MaxQuotes }

ClockMarkets ==
    { [truthy |-> TRUE, data |-> << [code |-> "sh000300", price |-> p] >>] :
        p \in { << >>, <<4000>> } }

InitBasisClock ==
    /\ RetryIdle
    /\ now \in EvalInstants
    /\ market_data \in ClockMarkets
    /\ futures_data \in { [truthy |-> TRUE, data |-> d] : d \in ClockPayloads }
    /\ basis_out = [tag |-> "none", results |-> << >>, at |-> now]
    /\ basis_prev = basis_out
    /\ CalIdle
    /\ ValidIdle
    /\ QualityIdle
    /\ PipeIdle

\* Time passes between two calls: datetime.now() will read a later instant.
ClockAdvance ==
    /\ basis_out.tag # "none"
    /\ basis_prev.tag = "none"
    /\ \E later \in EvalInstants :
           /\ later # now
           /\ DatetimeLE(now, later)
           /\ now' = later
    /\ UNCHANGED <<retryVars, market_data, futures_data, basis_out, basis_prev,
                   calVars, validVars, qualityVars, pipeVars>>

\* analyze_basis is called once more with the same two arguments.
AnalyzeBasisAgain ==
    /\ basis_out.tag # "none"
    /\ basis_prev.tag = "none"
    /\ basis_prev' = basis_out
    /\ basis_out' = analyze_basis(market_data, futures_data, now)
    /\ UNCHANGED <<retryVars, now, market_data, futures_data, calVars, validVars, qualityVars, pipeVars>>

NextBasisClock == AnalyzeBasis \/ ClockAdvance \/ AnalyzeBasisAgain

SpecBasisClock == InitBasisClock /\ [][NextBasisClock]_vars

(***************************************************************************)
(* Part III.  utils/data_validator.py : MarketDataValidator                *)
(*                                                                         *)
(* An item is a record of the four fields the validator reads, each one an *)
(* optional value (<< >> when the key is absent or None).  Prices are      *)
(* integers, change_percent is in whole percent.  An error or a warning is *)
(* a record of its kind and of what its message interpolates.              *)
(***************************************************************************)

REQUIRED_FIELDS == << "code", "name", "price", "change_percent" >>

REQUIRED_INDICES ==
    << "sh000001", "sz399001", "sh000300", "sh000905",
       "sh000852", "sh000016", "sh000688", "sz399006" >>

ValidationResult(valid, errors, warnings) ==
    [valid |-> valid, errors |-> errors, warnings |-> warnings]

EmptyDataError == [kind |-> "empty", field |-> "", codes |-> {}, value |-> 0]
MissingIndexError(missing) ==
    [kind |-> "missing_index", field |-> "", codes |-> missing, value |-> 0]
MissingFieldError(field) ==
    [kind |-> "missing_field", field |-> field, codes |-> {}, value |-> 0]
PriceError(price) ==
    [kind |-> "abnormal_price", field |-> "", codes |-> {}, value |-> price]
ChangeWarning(change) == [kind |-> "abnormal_change", value |-> change]

\* Python truthiness of an optional string: None and '' are falsy.
TruthyStr(opt) == Len(opt) = 1 /\ opt[1] # ""

\* `not item.get(field)`
FieldFalsy(item, field) ==
    IF field \in {"code", "name"} THEN ~TruthyStr(item[field])
    ELSE ~Truthy(item[field])

\* for field in REQUIRED_FIELDS: if not item.get(field): errors.append(...)
RECURSIVE FieldErrors(_, _)
FieldErrors(item, i) ==
    IF i > Len(REQUIRED_FIELDS) THEN << >>
    ELSE (IF FieldFalsy(item, REQUIRED_FIELDS[i])
          THEN << MissingFieldError(REQUIRED_FIELDS[i]) >> ELSE << >>)
           \o FieldErrors(item, i + 1)

\* item.get(key, 0)
GetOrZero(opt) == IF Len(opt) = 1 THEN opt[1] ELSE 0

validate_item(item) ==
    LET price == GetOrZero(item.price)
        change == GetOrZero(item.change_percent)
        errors == FieldErrors(item, 1)
                    \o (IF price # 0 /\ price <= 0
                        THEN << PriceError(price) >> ELSE << >>)
        warnings == IF change # 0 /\ (change < -20 \/ change > 20)
                    THEN << ChangeWarning(change) >> ELSE << >>
    IN  ValidationResult(Len(errors) = 0, errors, warnings)

\* codes = {item.get('code') for item in data if item.get('code')}
CodesOf(data) ==
    { data[i].code[1] : i \in { j \in 1..Len(data) : TruthyStr(data[j].code) } }

Range(seq) == { seq[i] : i \in 1..Len(seq) }

\* if missing: errors.append(f"... {missing}")
RECURSIVE MissingIndexErrorsMutPerCode(_)
MissingIndexErrorsMutPerCode(missing) ==
    IF missing = {} THEN << >>
    ELSE LET x == CHOOSE y \in missing : TRUE
         IN  << MissingIndexError({x}) >> \o MissingIndexErrorsMutPerCode(missing \ {x})
MissingIndexErrors(missing) ==
    IF missing # {} THEN << MissingIndexError(missing) >> ELSE << >>

\* result = self._validate_item(item), for each item in order
ItemResults(data) == [ i \in 1..Len(data) |-> validate_item(data[i]) ]

RECURSIVE ExtendAll(_, _, _)
ExtendAll(results, part, i) ==
    IF i > Len(results) THEN << >>
    ELSE results[i][part] \o ExtendAll(results, part, i + 1)

EmptyDataResultMutValid == ValidationResult(TRUE, << >>, << >>)
EmptyDataResult == ValidationResult(FALSE, << EmptyDataError >>, << >>)

MarketDataValidator_validate(data) ==
    IF Len(data) = 0 THEN EmptyDataResult
    ELSE LET missing == Range(REQUIRED_INDICES) \ CodesOf(data)
             results == ItemResults(data)
             errors == MissingIndexErrors(missing) \o ExtendAll(results, "errors", 1)
             warnings == ExtendAll(results, "warnings", 1)
         IN  ValidationResult(Len(errors) = 0, errors, warnings)

validate_market_data(data) == MarketDataValidator_validate(data)

(* ----------------------------- inputs ---------------------------------- *)

\* Items of any content that follow the well-formed ones in the list.
MaxProbes == 1

WellFormed(code) ==
    [ code |-> << code >>, name |-> << "name" >>, price |-> << 3000 >>,
      change_percent |-> << 1 >> ]

\* An item under any of three codes (none, a required one, another one),
\* well-formed but for one field, or with no field at all.
ProbeItems ==
    LET codes == { << >>, << "sh000001" >>, << "hk00700" >> }
        base(c) == [ code |-> c, name |-> << "name" >>, price |-> << 3000 >>,
                     change_percent |-> << 1 >> ]
    IN  { base(c) : c \in codes }
          \cup { [base(c) EXCEPT !.name = << >>] : c \in codes }
          \cup { [base(c) EXCEPT !.price = p] :
                   c \in codes, p \in { << >>, << 0 >>, << -1 >> } }
          \cup { [base(c) EXCEPT !.change_percent = ch] :
                   c \in codes, ch \in { << >>, << 0 >>, << 20 >>, << -21 >> } }
          \cup { [ code |-> << >>, name |-> << >>, price |-> << >>,
                   change_percent |-> << >> ] }

RECURSIVE ProbeLists(_)
ProbeLists(k) ==
    IF k = 0 THEN { << >> }
    ELSE ProbeLists(k - 1) \cup
         { Append(l, p) : l \in { m \in ProbeLists(k - 1) : Len(m) = k - 1 },
                          p \in ProbeItems }

\* well-formed items of the required codes in `present`, in list order
RECURSIVE WellFormedItems(_, _)
WellFormedItems(present, i) ==
    IF i > Len(REQUIRED_INDICES) THEN << >>
    ELSE (IF REQUIRED_INDICES[i] \in present
          THEN << WellFormed(REQUIRED_INDICES[i]) >> ELSE << >>)
           \o WellFormedItems(present, i + 1)

InitValidate ==
    /\ RetryIdle
    /\ BasisIdle
    /\ CalIdle
    /\ QualityIdle
    /\ PipeIdle
    /\ \E present \in SUBSET Range(REQUIRED_INDICES) :
       \E probes \in ProbeLists(MaxProbes) :
           valid_in = WellFormedItems(present, 1) \o probes
    /\ valid_out = [tag |-> "none", errors |-> << >>, warnings |-> << >>]

\* result = validate_market_data(data)
ValidateMarketData ==
    /\ valid_out.tag = "none"
    /\ LET result == validate_market_data(valid_in)
       IN  valid_out' = [ tag      |-> "return",
                          valid    |-> result.valid,
                          errors   |-> result.errors,
                          warnings |-> result.warnings,
                          items    |-> ItemResults(valid_in) ]
    /\ UNCHANGED <<retryVars, basisVars, calVars, valid_in, qualityVars, pipeVars>>

NextValidate == ValidateMarketData

SpecValidate == InitValidate /\ [][NextValidate]_vars

(***************************************************************************)
(* Properties of Part II                                                   *)
(***************************************************************************)

Returned == basis_out.tag = "return"

\* The (code, contract type) pairs of the futures payload, by position.
QuotePairs ==
    { <<i, j>> \in (1..Len(futures_data.data)) \X (1..MaxQuotes + 1) :
        j <= Len(futures_data.data[i].contracts) }

PairCode(pr) == futures_data.data[pr[1]].code
PairType(pr) == futures_data.data[pr[1]].contracts[pr[2]].type
PairQuote(pr) == futures_data.data[pr[1]].contracts[pr[2]].data

HasRecord(pr) ==
    \E n \in 1..Len(basis_out.results) :
        /\ basis_out.results[n].index = PairCode(pr)
        /\ basis_out.results[n].contract = PairType(pr)

\* The spot index mapped to the pair's futures code has a price > 0.
SpotPositive(pr) ==
    /\ market_data.truthy
    /\ PairCode(pr) \in DOMAIN FUTURES_SPOT_MAP
    /\ \E n \in 1..Len(market_data.data) :
           /\ market_data.data[n].code = FUTURES_SPOT_MAP[PairCode(pr)]
           /\ Len(market_data.data[n].price) = 1
           /\ market_data.data[n].price[1] > 0

\* The pair's futures quote exists and has a price > 0.
QuotePositive(pr) == Len(PairQuote(pr)) = 1 /\ PairQuote(pr)[1] > 0

\* C8: analyze_basis returns without error, with a record for a (futures
\* code, contract type) pair exactly when the mapped spot index has a price
\* > 0 and the futures quote exists with a price > 0; a missing spot price
\* or a missing, zero or negative futures price yields no record.
C8_RecordIffPositivePrices ==
    basis_out.tag # "none" =>
        /\ Returned
        /\ \A pr \in QuotePairs :
               HasRecord(pr) <=> (SpotPositive(pr) /\ QuotePositive(pr))

\* C9: in every record trading_days is > 0: the computed trading days to
\* expiry when that is positive, otherwise exactly the fallback of the
\* contract type (CurrentMonth 15, NextQuarter 35, FarQuarter 70), whatever
\* the evaluation instant.
C9_TradingDaysPositive ==
    /\ \A ct \in ContractTypes : \A computed \in -2..0 :
           FallbackDays(ct, computed) =
               [CurrentMonth |-> 15, NextQuarter |-> 35, FarQuarter |-> 70][ct]
    /\ \A n \in 1..Len(basis_out.results) :
           LET r == basis_out.results[n]
               computed == TradingDaysAt[basis_out.at][r.contract]
           IN  /\ r.trading_days > 0
               /\ computed > 0 => r.trading_days = computed
               /\ computed <= 0 =>
                    r.trading_days =
                        [CurrentMonth |-> 15, NextQuarter |-> 35,
                         FarQuarter |-> 70][r.contract]

\* A record of a contract that has lapsed at the evaluation instant, next
\* to one of a contract that has not.
C9_Witness ==
    /\ Returned
    /\ \E n, k \in 1..Len(basis_out.results) :
           /\ basis_out.results[n].contract = "CurrentMonth"
           /\ basis_out.results[n].trading_days = 15
           /\ TradingDaysAt[basis_out.at]["CurrentMonth"] = 0
           /\ basis_out.results[k].contract = "NextQuarter"
           /\ basis_out.results[k].trading_days =
                  TradingDaysAt[basis_out.at]["NextQuarter"]

SortedDescending ==
    \A a, b \in 1..Len(basis_out.results) :
        a < b => basis_out.results[a].annualized_basis
                   >= basis_out.results[b].annualized_basis

\* Position of a record's futures code in the payload's iteration order.
CodePos(r) ==
    CHOOSE i \in 1..Len(futures_data.data) : futures_data.data[i].code = r.index

\* Position of a record's contract type among the keys of its code's mapping.
KeyPos(r) ==
    LET m == futures_data.data[CodePos(r)].contracts
    IN  CHOOSE j \in 1..Len(m) : m[j].type = r.contract

TypeRank(ct) == [CurrentMonth |-> 1, NextQuarter |-> 2, FarQuarter |-> 3][ct]

\* C10 as stated: the list is ordered by annualized_basis descending and
\* ties appear in futures-code iteration order, then in the fixed order
\* CurrentMonth, NextQuarter, FarQuarter, whatever the key order of the
\* per-code contract mapping.
C10_TiesInFixedTypeOrder ==
    /\ SortedDescending
    /\ \A a, b \in 1..Len(basis_out.results) :
           LET ra == basis_out.results[a]
               rb == basis_out.results[b]
           IN  (a < b /\ ra.annualized_basis = rb.annualized_basis) =>
                   \/ CodePos(ra) < CodePos(rb)
                   \/ CodePos(ra) = CodePos(rb)
                        /\ TypeRank(ra.contract) < TypeRank(rb.contract)

\* C10 as amended: the list is ordered by annualized_basis descending and
\* ties appear in futures-code iteration order, then in the key order of
\* the per-code contract mapping of the input.
C10_TiesInInputOrder ==
    /\ SortedDescending
    /\ \A a, b \in 1..Len(basis_out.results) :
           LET ra == basis_out.results[a]
               rb == basis_out.results[b]
           IN  (a < b /\ ra.annualized_basis = rb.annualized_basis) =>
                   \/ CodePos(ra) < CodePos(rb)
                   \/ CodePos(ra) = CodePos(rb) /\ KeyPos(ra) < KeyPos(rb)

\* Two tied records of one code, listed NextQuarter before CurrentMonth as
\* in the input, and an untied pair in descending order.
C10_Witness ==
    /\ Returned
    /\ Len(basis_out.results) = 2
    /\ basis_out.results[1].annualized_basis = basis_out.results[2].annualized_basis
    /\ basis_out.results[1].index = basis_out.results[2].index
    /\ basis_out.results[1].contract = "NextQuarter"
    /\ basis_out.results[2].contract = "CurrentMonth"

\* The record of the worked example: IF CurrentMonth at 4010 against
\* sh000300 at 4000, ten trading days before expiry.
C12_Example(r) ==
    /\ r.index = "IF"
    /\ r.contract = "CurrentMonth"
    /\ r.spot_price = 4000
    /\ r.futures_price = 4010
    /\ r.trading_days = 10

\* C12 as stated: for spot sh000300 = 4000.00, an IF CurrentMonth price of
\* 4010.00 and 10 trading days to expiry the record has basis = 10.00,
\* basis_percent = 0.25 and annualized_basis = 9.13.
C12_AnnualizedIs913 ==
    \A n \in 1..Len(basis_out.results) :
        LET r == basis_out.results[n]
        IN  C12_Example(r) =>
                r.basis = 1000 /\ r.basis_percent = 25 /\ r.annualized_basis = 913

\* C12 as amended: for the same input the record has basis = 10.00,
\* basis_percent = 0.25 and annualized_basis = 9.12: 0.25 * 365 / 10 is
\* 9.125 and round(x, 2) takes the tie to the even hundredth.
C12_AnnualizedIs912 ==
    \A n \in 1..Len(basis_out.results) :
        LET r == basis_out.results[n]
        IN  C12_Example(r) =>
                r.basis = 1000 /\ r.basis_percent = 25 /\ r.annualized_basis = 912

\* The example's record has been produced, at an instant ten trading days
\* before the December 2026 expiry.
C12_Witness ==
    /\ Returned
    /\ TradingDaysAt[basis_out.at]["CurrentMonth"] = 10
    /\ \E n \in 1..Len(basis_out.results) : C12_Example(basis_out.results[n])

(* ---------------------------- SpecBasisClock ---------------------------- *)

CalledTwice == basis_prev.tag # "none"

\* A record without the two fields computed from the trading days.
ClockFree(r) ==
    [ index |-> r.index, index_name |-> r.index_name, contract |-> r.contract,
      futures_price |-> r.futures_price, spot_price |-> r.spot_price,
      basis |-> r.basis, basis_percent |-> r.basis_percent ]

ClockFreeRecords(out) == { ClockFree(out.results[n]) : n \in 1..Len(out.results) }

\* The recognized contract types among the keys of the payload.
QuotedTypes == { PairType(pr) : pr \in QuotePairs } \cap ContractTypes

PairPriced(pr) ==
    /\ market_data.truthy
    /\ PairCode(pr) \in DOMAIN FUTURES_SPOT_MAP
    /\ \E n \in 1..Len(market_data.data) :
           /\ market_data.data[n].code = FUTURES_SPOT_MAP[PairCode(pr)]
           /\ Len(market_data.data[n].price) = 1
           /\ market_data.data[n].price[1] # 0
    /\ Len(PairQuote(pr)) = 1
    /\ PairQuote(pr)[1] # 0

UnknownTypes == TypeKeys \ ContractTypes

\* get_contract_expiry and get_trading_days_to_expiry raise ValueError for
\* an unrecognized type and return nothing.
CalendarRejectsUnknownTypes ==
    \A ct \in UnknownTypes : \A at \in EvalInstants :
        /\ get_contract_expiry(ct, at.year, at.month) = Raises("ValueError")
        /\ ToExpiryAt[at][ct] = Raises("ValueError")

\* C17 as stated: given a contract type other than the three recognized
\* ones, get_contract_expiry and get_trading_days_to_expiry raise
\* ValueError, and analyze_basis raises it too: it neither skips the pair
\* nor returns a partial list.
C17_UnknownTypeAlwaysRaises ==
    /\ CalendarRejectsUnknownTypes
    /\ basis_out.tag # "none" =>
           ((\E pr \in QuotePairs : PairType(pr) \in UnknownTypes)
               => basis_out.tag = "raise" /\ basis_out.results = << >>)

\* C17 as amended: get_contract_expiry and get_trading_days_to_expiry raise
\* ValueError for an unrecognized type; analyze_basis raises it, returning
\* no list at all, exactly when a pair with an unrecognized type has both a
\* spot price and a futures price that are present and non-zero; a pair
\* with an unrecognized type but a missing price is skipped silently.
C17_UnknownTypeRaisesWhenPriced ==
    /\ CalendarRejectsUnknownTypes
    /\ basis_out.tag # "none" =>
           IF \E pr \in QuotePairs : PairType(pr) \in UnknownTypes /\ PairPriced(pr)
           THEN basis_out.tag = "raise" /\ basis_out.results = << >>
           ELSE /\ basis_out.tag = "return"
                /\ \A pr \in QuotePairs :
                       PairType(pr) \in UnknownTypes => ~HasRecord(pr)

\* A priced pair of a recognized type precedes a priced pair of an
\* unrecognized one: the call raises and the first pair's record is lost.
C17_Witness ==
    /\ basis_out.tag = "raise"
    /\ basis_out.results = << >>
    /\ \E a, b \in QuotePairs :
           /\ a[1] = b[1] /\ a[2] < b[2]
           /\ PairType(a) \in ContractTypes /\ PairPriced(a)
           /\ PairType(b) \in UnknownTypes /\ PairPriced(b)

(* ----------------------------- SpecCalendar ----------------------------- *)

Applied == cal.pc = "applied"

\* The dates of the holiday list, as (year, month, day).
HolidayDates ==
    { <<2026, 1, 1>>, <<2026, 1, 28>>, <<2026, 1, 29>>, <<2026, 1, 30>>,
      <<2026, 1, 31>>, <<2026, 2, 1>>, <<2026, 2, 2>>, <<2026, 2, 3>>,
      <<2026, 2, 14>>, <<2026, 2, 15>>, <<2026, 4, 4>>, <<2026, 4, 5>>,
      <<2026, 4, 6>>, <<2026, 5, 1>>, <<2026, 5, 2>>, <<2026, 5, 3>>,
      <<2026, 5, 4>>, <<2026, 5, 5>>, <<2026, 6, 19>>, <<2026, 6, 20>>,
      <<2026, 6, 21>>, <<2026, 10, 1>>, <<2026, 10, 2>>, <<2026, 10,
      3>>, <<2026, 10, 4>>, <<2026, 10, 5>>, <<2026, 10, 6>>, <<2026,
      10, 7>>, <<2026, 10, 10>> }

Listed(d) == <<d.year, d.month, d.day>> \in HolidayDates

\* C13: is_trading_day(d) is false when d is a Saturday or a Sunday, listed
\* as a holiday or not; for a weekday d it is false exactly when d is
\* listed in the holiday set.
C13_TradingDayRule ==
    Applied =>
        /\ cal.dow \in {5, 6} => ~cal.out[1].trading
        /\ cal.dow \notin {5, 6} => (cal.out[1].trading <=> ~Listed(cal.date))

\* A weekday that is listed, after a Saturday that is listed too (the
\* Spring Festival days of 2026): neither is a trading day.
C13_Witness ==
    /\ Applied
    /\ cal.dow = 0
    /\ Listed(cal.date)
    /\ cal.date = Datetime(2026, 2, 2, 0)
    /\ <<2026, 1, 31>> \in HolidayDates
    /\ ~cal.out[1].trading

\* C14: get_futures_expiry_date(y, m) is a Friday of month m of year y with
\* its day of month in 15..21, the third Friday the walk through the month
\* comes by.
C14_ExpiryIsThirdFriday ==
    Applied =>
        LET expiry == cal.out[1].expiry
        IN  /\ expiry.year = cal.date.year
            /\ expiry.month = cal.date.month
            /\ expiry.day \in 15..21
            /\ expiry.tod = 0
            /\ Weekday(expiry) = 4
            /\ cal.date = expiry => cal.dow = 4 /\ cal.fridays = 3
            /\ cal.third_friday # 0 => expiry.day = cal.third_friday

\* The walk has passed the third Friday of a month that begins on a
\* Friday (May 2026): the expiry is the 15th.
C14_Witness ==
    /\ Applied
    /\ cal.date.year = 2026 /\ cal.date.month = 5
    /\ cal.third_friday = 15
    /\ cal.out[1].expiry = Datetime(2026, 5, 15, 0)

\* The calendar month k months after (y, m), as <<year, month>>.
MonthAfter(y, m, k) ==
    LET n == y * 12 + (m - 1) + k
    IN  << n \div 12, (n % 12) + 1 >>

\* C15: get_contract_expiry(NextQuarter, y, m) is the third-Friday expiry
\* of the month one month after (y, m), that of FarQuarter the expiry of
\* the month two months after, the year going up when the month passes
\* December; get_contract_expiry(NextQuarter, y, 12) equals
\* get_contract_expiry(CurrentMonth, y + 1, 1).
C15_QuarterExpiries ==
    Applied =>
        LET y == cal.date.year
            m == cal.date.month
            one == MonthAfter(y, m, 1)
            two == MonthAfter(y, m, 2)
        IN  /\ cal.out[1].current = Returns(get_futures_expiry_date(y, m))
            /\ cal.out[1].next = Returns(get_futures_expiry_date(one[1], one[2]))
            /\ cal.out[1].far = Returns(get_futures_expiry_date(two[1], two[2]))
            /\ cal.out[1].next.value[1].year = (IF m = 12 THEN y + 1 ELSE y)
            /\ cal.out[1].far.value[1].year = (IF m \in {11, 12} THEN y + 1 ELSE y)
            /\ m = 12 => cal.out[1].next = get_contract_expiry("CurrentMonth", y + 1, 1)

\* In November the FarQuarter expiry is the third Friday of next January
\* while the NextQuarter expiry stays in the year.
C15_Witness ==
    /\ Applied
    /\ cal.date.year = 2026 /\ cal.date.month = 11
    /\ cal.out[1].far = Returns(Datetime(2027, 1, 15, 0))
    /\ cal.out[1].next = Returns(Datetime(2026, 12, 18, 0))

\* C16: for two dates, get_trading_days_between(start, end) is the number
\* of days d with start <= d <= end that are trading days, both ends
\* included; it is 0 when start > end and never negative.
C16_InclusiveCount ==
    Applied =>
        /\ cal.out[1].between >= 0
        /\ ~DatetimeLE(cal.start, cal.date) => cal.out[1].between = 0
        /\ cal.start.tod = 0 => cal.out[1].between = cal.counted

\* From Wednesday 2026-04-01 to a later trading day in another month, both
\* counted.
C16_Witness ==
    /\ Applied
    /\ cal.start = Datetime(2026, 4, 1, 0)
    /\ cal.date.month = 5
    /\ cal.out[1].trading
    /\ cal.out[1].between = cal.counted
    /\ cal.counted > 20

(***************************************************************************)
(* Properties of Part III                                                  *)
(***************************************************************************)

Validated == valid_out.tag = "return"

\* C18: validate_market_data applied to an empty list returns exactly one
\* error, the empty-data one, and no warning, with valid = false.
C18_EmptyListOneError ==
    (Validated /\ Len(valid_in) = 0) =>
        /\ valid_out.errors = << EmptyDataError >>
        /\ Len(valid_out.errors) = 1
        /\ Len(valid_out.warnings) = 0
        /\ valid_out.valid = FALSE

C18_Witness ==
    /\ Validated
    /\ valid_in = << >>
    /\ Len(valid_out.errors) = 1
    /\ ~valid_out.valid

\* The required index codes that no item of the list carries.
MissingCodes ==
    { c \in Range(REQUIRED_INDICES) :
        ~\E i \in 1..Len(valid_in) : valid_in[i].code = << c >> }

MissingIndexErrorCount ==
    Cardinality({ n \in 1..Len(valid_out.errors) :
                    valid_out.errors[n].kind = "missing_index" })

\* C19 as stated: for a non-empty list there is one missing-index error per
\* required index code that is missing: k errors when k of the 8 codes do
\* not occur.
C19_OneErrorPerMissingCode ==
    (Validated /\ Len(valid_in) > 0) =>
        MissingIndexErrorCount = Cardinality(MissingCodes)

\* C19 as amended: for a non-empty list there is no missing-index error
\* when every required code occurs, and otherwise exactly one, the first
\* error of the result, which names all the k missing codes together.
C19_OneErrorForAllMissingCodes ==
    (Validated /\ Len(valid_in) > 0) =>
        IF MissingCodes = {} THEN MissingIndexErrorCount = 0
        ELSE /\ MissingIndexErrorCount = 1
             /\ valid_out.errors[1] = MissingIndexError(MissingCodes)

\* Three of the eight codes are missing and one error reports them.
C19_Witness ==
    /\ Validated
    /\ Len(valid_in) > 0
    /\ Cardinality(MissingCodes) = 3
    /\ MissingIndexErrorCount = 1

FieldAbsent(item, field) == Len(item[field]) = 0

HasMissingFieldError(result) ==
    \E n \in 1..Len(result.errors) : result.errors[n].kind = "missing_field"

\* C20: a missing-field error is reported for a record exactly when one of
\* code, name, price, change_percent is absent from it; a record with all
\* four present, price > 0 and |change_percent| <= 20 (0 included) gets no
\* error and no warning of its own.
C20_MissingFieldIffAbsent ==
    Validated =>
        \A i \in 1..Len(valid_in) :
            LET item == valid_in[i]
                result == valid_out.items[i]
                absent == \E f \in Range(REQUIRED_FIELDS) : FieldAbsent(item, f)
            IN  /\ HasMissingFieldError(result) <=> absent
                /\ (/\ ~absent
                     /\ item.price[1] > 0
                     /\ item.change_percent[1] >= -20
                     /\ item.change_percent[1] <= 20)
                      => (result.errors = << >> /\ result.warnings = << >>)

(***************************************************************************)
(* Part III (continued).  utils/data_validator.py : FuturesDataValidator   *)
(*                                                                         *)
(* The futures payload is a mapping from codes to contracts: for a code,   *)
(* << >> when the key is absent, else a mapping from the three contract    *)
(* types to a contract [present, price]: present says whether the type is  *)
(* a key of the code's mapping, price is the optional price (<< >> when    *)
(* the contract is None or {} or has no price).                            *)
(***************************************************************************)

REQUIRED_CONTRACTS == << "IF", "IC", "IM", "IH" >>
CONTRACT_TYPES == << "CurrentMonth", "NextQuarter", "FarQuarter" >>

EmptyFuturesError == [kind |-> "empty", code |-> "", type |-> ""]
MissingCodeError(code) == [kind |-> "missing_code", code |-> code, type |-> ""]
MissingPriceError(code, ct) == [kind |-> "missing_price", code |-> code, type |-> ct]
MissingContractWarning(code, ct) ==
    [kind |-> "missing_contract", code |-> code, type |-> ct]

\* `not data`: the dict has no key
FuturesFalsy(data) == \A code \in DOMAIN data : Len(data[code]) = 0

\* `if code == 'IH' and ct == ...: continue`
IHSkipMutNone(code, ct) == FALSE
IHSkip(code, ct) == code = "IH" /\ ct = "FarQuarter"

\* One pass of the inner loop: what contract type ct of a present code adds.
ContractCheck(code, contracts, ct) ==
    IF IHSkip(code, ct)
    THEN [errors |-> << >>, warnings |-> << >>]
    ELSE IF ~contracts[ct].present
    THEN [errors |-> << >>, warnings |-> << MissingContractWarning(code, ct) >>]
    ELSE IF ~Truthy(contracts[ct].price)
    THEN [errors |-> << MissingPriceError(code, ct) >>, warnings |-> << >>]
    ELSE [errors |-> << >>, warnings |-> << >>]

\* for ct in self.CONTRACT_TYPES
RECURSIVE ContractChecks(_, _, _, _)
ContractChecks(code, contracts, part, j) ==
    IF j > Len(CONTRACT_TYPES) THEN << >>
    ELSE ContractCheck(code, contracts, CONTRACT_TYPES[j])[part]
           \o ContractChecks(code, contracts, part, j + 1)

\* for code in self.REQUIRED_CONTRACTS
RECURSIVE CodeChecks(_, _, _)
CodeChecks(data, part, i) ==
    IF i > Len(REQUIRED_CONTRACTS) THEN << >>
    ELSE LET code == REQUIRED_CONTRACTS[i]
         IN  (IF Len(data[code]) = 0
              THEN (IF part = "errors" THEN << MissingCodeError(code) >> ELSE << >>)
              ELSE ContractChecks(code, data[code][1], part, 1))
               \o CodeChecks(data, part, i + 1)

FuturesDataValidator_validate(data) ==
    IF FuturesFalsy(data)
    THEN ValidationResult(FALSE, << EmptyFuturesError >>, << >>)
    ELSE LET errors == CodeChecks(data, "errors", 1)
             warnings == CodeChecks(data, "warnings", 1)
         IN  ValidationResult(Len(errors) = 0, errors, warnings)

validate_futures_data(data) == FuturesDataValidator_validate(data)

(* ----------------------------- inputs ---------------------------------- *)

ContractForms ==
    { [present |-> FALSE, price |-> << >>], [present |-> TRUE, price |-> << >>],
      [present |-> TRUE, price |-> << 0 >>], [present |-> TRUE, price |-> << 4010 >>] }

\* A code with every contract priced.
CompleteCode ==
    << [ ct \in ContractTypes |-> [present |-> TRUE, price |-> << 4010 >>] ] >>

\* IF and IH carry any contracts; IC and IM are absent or complete.
FuturesDicts ==
    { [ code \in Range(REQUIRED_CONTRACTS) |->
          IF code = "IF" THEN f ELSE IF code = "IH" THEN h
          ELSE IF code = "IC" THEN c ELSE m ] :
        f \in { << >> } \cup { << x >> : x \in [ContractTypes -> ContractForms] },
        h \in { << >> } \cup { << x >> : x \in [ContractTypes -> ContractForms] },
        c \in { << >>, CompleteCode }, m \in { << >>, CompleteCode } }

InitValidateFutures ==
    /\ RetryIdle
    /\ BasisIdle
    /\ CalIdle
    /\ QualityIdle
    /\ PipeIdle
    /\ valid_in \in FuturesDicts
    /\ valid_out = [tag |-> "none", errors |-> << >>, warnings |-> << >>]

\* result = validate_futures_data(data)
ValidateFuturesData ==
    /\ valid_out.tag = "none"
    /\ LET result == validate_futures_data(valid_in)
       IN  valid_out' = [ tag      |-> "return",
                          valid    |-> result.valid,
                          errors   |-> result.errors,
                          warnings |-> result.warnings ]
    /\ UNCHANGED <<retryVars, basisVars, calVars, valid_in, qualityVars, pipeVars>>

NextValidateFutures == ValidateFuturesData

SpecValidateFutures == InitValidateFutures /\ [][NextValidateFutures]_vars

(* ------------------------- SpecValidateFutures -------------------------- *)

\* The contract types expected for a code.
ExpectedTypes(code) ==
    IF code = "IH" THEN {"CurrentMonth", "NextQuarter"} ELSE ContractTypes

\* The contract of type ct of the code is in the payload.
ContractPresent(code, ct) ==
    Len(valid_in[code]) = 1 /\ valid_in[code][1][ct].present

HasPrice(code, ct) ==
    /\ Len(valid_in[code][1][ct].price) = 1
    /\ valid_in[code][1][ct].price[1] # 0

FuturesPairs == Range(REQUIRED_CONTRACTS) \X ContractTypes

WarnedPairs ==
    { << valid_out.warnings[n].code, valid_out.warnings[n].type >> :
        n \in 1..Len(valid_out.warnings) }

PriceErrorPairs ==
    { << valid_out.errors[n].code, valid_out.errors[n].type >> :
        n \in { k \in 1..Len(valid_out.errors) :
                  valid_out.errors[k].kind = "missing_price" } }

\* C21 as stated: for each of IF, IC, IM, IH there is a warning, not an
\* error, for each expected contract type that is absent (all three types
\* for IF, IC, IM, only CurrentMonth and NextQuarter for IH) and an error
\* for each expected contract that is present without a price.
C21_WarningPerAbsentType ==
    (Validated /\ ~FuturesFalsy(valid_in)) =>
        /\ WarnedPairs =
             { pr \in FuturesPairs :
                 pr[2] \in ExpectedTypes(pr[1]) /\ ~ContractPresent(pr[1], pr[2]) }
        /\ Len(valid_out.warnings) = Cardinality(WarnedPairs)
        /\ PriceErrorPairs =
             { pr \in FuturesPairs :
                 /\ pr[2] \in ExpectedTypes(pr[1])
                 /\ ContractPresent(pr[1], pr[2])
                 /\ ~HasPrice(pr[1], pr[2]) }
        /\ \A n \in 1..Len(valid_out.errors) :
               valid_out.errors[n].kind = "missing_price"

\* C21 as amended: a code among IF, IC, IM, IH that is absent from the
\* payload gets one error and no warning; for a code that is present there
\* is a warning for each expected contract type that is absent and an
\* error for each expected contract that is present without a price; IH
\* FarQuarter causes neither, absent or present.
C21_WarningPerAbsentTypeOfPresentCode ==
    (Validated /\ ~FuturesFalsy(valid_in)) =>
        /\ WarnedPairs =
             { pr \in FuturesPairs :
                 /\ Len(valid_in[pr[1]]) = 1
                 /\ pr[2] \in ExpectedTypes(pr[1])
                 /\ ~ContractPresent(pr[1], pr[2]) }
        /\ Len(valid_out.warnings) = Cardinality(WarnedPairs)
        /\ PriceErrorPairs =
             { pr \in FuturesPairs :
                 /\ pr[2] \in ExpectedTypes(pr[1])
                 /\ ContractPresent(pr[1], pr[2])
                 /\ ~HasPrice(pr[1], pr[2]) }
        /\ { valid_out.errors[n].code :
               n \in { k \in 1..Len(valid_out.errors) :
                         valid_out.errors[k].kind = "missing_code" } }
             = { code \in Range(REQUIRED_CONTRACTS) : Len(valid_in[code]) = 0 }
        /\ Len(valid_out.errors) =
             Cardinality(PriceErrorPairs)
               + Cardinality({ code \in Range(REQUIRED_CONTRACTS) :
                                 Len(valid_in[code]) = 0 })

\* IH lacks FarQuarter and NextQuarter and has CurrentMonth without a price,
\* IF lacks FarQuarter: two warnings, one error.
C21_Witness ==
    /\ Validated
    /\ \A code \in Range(REQUIRED_CONTRACTS) : Len(valid_in[code]) = 1
    /\ ~ContractPresent("IH", "FarQuarter")
    /\ WarnedPairs = { <<"IH", "NextQuarter">>, <<"IF", "FarQuarter">> }
    /\ PriceErrorPairs = { <<"IH", "CurrentMonth">> }

(***************************************************************************)
(* Part III (continued).  NewsDataValidator and BasisDataValidator         *)
(*                                                                         *)
(* A news item is [title, category], a basis item carries the six fields   *)
(* the validator reads; every field is an optional value.  basis and       *)
(* annualized_basis are in hundredths as in the records of analyze_basis,  *)
(* so the limits 1000 and 50 of the source are 100000 and 5000 here.       *)
(***************************************************************************)

CATEGORIES == { "macro_policy", "industry", "global_markets", "corporate", "other" }

NewsError(kind) == [kind |-> kind]
NewsWarning(kind, value) == [kind |-> kind, value |-> value]

\* One pass of `for item in data`.
NewsItemCheck(item) ==
    [ errors |->
        (IF ~TruthyStr(item.title) THEN << NewsError("missing_title") >> ELSE << >>)
          \o (IF ~TruthyStr(item.category)
              THEN << NewsError("missing_category") >> ELSE << >>),
      warnings |->
        IF TruthyStr(item.category) /\ item.category[1] \notin CATEGORIES
        THEN << NewsWarning("unknown_category", item.category[1]) >> ELSE << >> ]

NewsDataValidator_validate(data) ==
    IF Len(data) = 0
    THEN ValidationResult(FALSE, << NewsError("empty") >>, << >>)
    ELSE LET results == [ i \in 1..Len(data) |-> NewsItemCheck(data[i]) ]
             errors == ExtendAll(results, "errors", 1)
             warnings ==
                 (IF Len(data) < 5
                  THEN << NewsWarning("too_few", ToString(Len(data))) >> ELSE << >>)
                   \o ExtendAll(results, "warnings", 1)
         IN  ValidationResult(Len(errors) = 0, errors, warnings)

validate_news_data(data) == NewsDataValidator_validate(data)

Abs(x) == IF x < 0 THEN -x ELSE x

\* One pass of `for item in data`.
BasisItemCheck(item) ==
    LET basis == GetOrZero(item.basis)
        ann_basis == GetOrZero(item.annualized_basis)
    IN  [ errors |->
            (IF ~TruthyStr(item.index) THEN << NewsError("missing_index") >> ELSE << >>)
              \o (IF ~TruthyStr(item.contract)
                  THEN << NewsError("missing_contract") >> ELSE << >>)
              \o (IF ~Truthy(item.futures_price)
                  THEN << NewsError("missing_futures_price") >> ELSE << >>)
              \o (IF ~Truthy(item.spot_price)
                  THEN << NewsError("missing_spot_price") >> ELSE << >>),
          warnings |->
            (IF basis # 0 /\ Abs(basis) > 100000
             THEN << [kind |-> "large_basis", value |-> basis] >> ELSE << >>)
              \o (IF ann_basis # 0 /\ Abs(ann_basis) > 5000
                  THEN << [kind |-> "abnormal_annualized", value |-> ann_basis] >>
                  ELSE << >>) ]

BasisDataValidator_validate(data) ==
    LET results == [ i \in 1..Len(data) |-> BasisItemCheck(data[i]) ]
        errors == ExtendAll(results, "errors", 1)
        warnings == ExtendAll(results, "warnings", 1)
    IN  ValidationResult(Len(errors) = 0, errors, warnings)

validate_basis_data(data) == BasisDataValidator_validate(data)

(***************************************************************************)
(* Part IV.  utils/data_quality.py                                         *)
(*                                                                         *)
(* A payload is an optional value: << >> for None, << d >> for a dict      *)
(* whose 'data' entry is d.                                                *)
(***************************************************************************)

Max(a, b) == IF a >= b THEN a ELSE b

\* {'issues': [...], 'warnings': [], 'score': 0} of an absent or empty payload
EmptyCheck(domain) ==
    [ issues |-> << [kind |-> "empty_" \o domain] >>, warnings |-> << >>,
      score |-> 0 ]

check_market_data(payload) ==
    IF Len(payload) = 0 \/ Len(payload[1]) = 0 THEN EmptyCheck("market")
    ELSE LET result == validate_market_data(payload[1])
             issues == result.errors
             warnings == result.warnings
         IN  [ issues |-> issues, warnings |-> warnings,
               score |-> Max(0, 100 - Len(issues) * 20 - Len(warnings) * 5) ]

\* `contracts.get(ct) and contracts[ct].get('price')`
Filled(contracts, ct) == contracts[ct].present /\ Truthy(contracts[ct].price)

\* filled and total after `for code, contracts in futures.items()`
Completeness(futures) ==
    LET codes == { code \in DOMAIN futures : Len(futures[code]) = 1 }
        expected(code) == IF code = "IH" THEN 2 ELSE 3
        counted(code) ==
            Cardinality({ ct \in ContractTypes :
                            /\ ~(ct = "FarQuarter" /\ code = "IH")
                            /\ Filled(futures[code][1], ct) })
        Sum[S \in SUBSET codes] ==
            IF S = {} THEN [total |-> 0, filled |-> 0]
            ELSE LET code == CHOOSE c \in S : TRUE
                     rest == Sum[S \ {code}]
                 IN  [ total |-> rest.total + expected(code),
                       filled |-> rest.filled + counted(code) ]
    IN  Sum[codes]

check_futures_dataMutWeights(payload) ==
    IF Len(payload) = 0 \/ FuturesFalsy(payload[1]) THEN EmptyCheck("futures")
    ELSE LET result == validate_futures_data(payload[1])
             done == Completeness(payload[1])
             issues == result.errors
             warnings ==
                 result.warnings
                   \o (IF done.filled < done.total
                       THEN << [kind |-> "incomplete", code |-> "", type |-> ""] >>
                       ELSE << >>)
         IN  [ issues |-> issues, warnings |-> warnings,
               score |-> Max(0, 100 - Len(issues) * 20 - Len(warnings) * 5) ]
check_futures_data(payload) ==
    IF Len(payload) = 0 \/ FuturesFalsy(payload[1]) THEN EmptyCheck("futures")
    ELSE LET result == validate_futures_data(payload[1])
             done == Completeness(payload[1])
             issues == result.errors
             warnings ==
                 result.warnings
                   \o (IF done.filled < done.total
                       THEN << [kind |-> "incomplete", code |-> "", type |-> ""] >>
                       ELSE << >>)
         IN  [ issues |-> issues, warnings |-> warnings,
               score |-> Max(0, 100 - Len(issues) * 15 - Len(warnings) * 5) ]

check_news_data(payload) ==
    IF Len(payload) = 0 \/ Len(payload[1]) = 0 THEN EmptyCheck("news")
    ELSE LET result == validate_news_data(payload[1])
             issues == result.errors
             warnings ==
                 result.warnings
                   \o (IF Len(payload[1]) < 5
                       THEN << NewsWarning("too_few", ToString(Len(payload[1]))) >>
                       ELSE << >>)
         IN  [ issues |-> issues, warnings |-> warnings,
               score |-> Max(0, 100 - Len(issues) * 10 - Len(warnings) * 3) ]

check_basis_data(payload) ==
    IF Len(payload) = 0 \/ Len(payload[1]) = 0 THEN EmptyCheck("basis")
    ELSE LET result == validate_basis_data(payload[1])
             issues == result.errors
             warnings == result.warnings
         IN  [ issues |-> issues, warnings |-> warnings,
               score |-> Max(0, 100 - Len(issues) * 10 - Len(warnings) * 3) ]

RECURSIVE SumSeq(_)
SumSeq(seq) == IF Len(seq) = 0 THEN 0 ELSE Head(seq) + SumSeq(Tail(seq))

\* scores = [market, futures, news]; if basis > 0: scores.append(basis)
ScoresMutSkipZero(market_score, futures_score, news_score, basis_score) ==
    SelectSeq(<< market_score, futures_score, news_score, basis_score >>,
              LAMBDA x : x > 0)
Scores(market_score, futures_score, news_score, basis_score) ==
    << market_score, futures_score, news_score >>
      \o (IF basis_score > 0 THEN << basis_score >> ELSE << >>)

\* passed=total_score >= 70
PassedMutStrict(total_score) == total_score > 70
Passed(total_score) == total_score >= 70

\* the verdict line of the report
Grade(total_score) ==
    IF total_score >= 90 THEN "excellent"
    ELSE IF total_score >= 70 THEN "qualified"
    ELSE IF total_score >= 50 THEN "fair" ELSE "poor"

generate_quality_report(market, futures, news, basis) ==
    LET market_check == check_market_data(market)
        futures_check == check_futures_data(futures)
        news_check == check_news_data(news)
        basis_check == check_basis_data(basis)
        scores == Scores(market_check.score, futures_check.score,
                         news_check.score, basis_check.score)
        total_score == IF Len(scores) > 0 THEN SumSeq(scores) \div Len(scores) ELSE 0
    IN  [ score    |-> total_score,
          passed   |-> Passed(total_score),
          issues   |-> market_check.issues \o futures_check.issues
                         \o news_check.issues,
          warnings |-> market_check.warnings \o futures_check.warnings
                         \o news_check.warnings,
          report   |-> [ market |-> market_check.score,
                         futures |-> futures_check.score,
                         news |-> news_check.score,
                         grade |-> Grade(total_score) ] ]

(* ----------------------------- inputs ---------------------------------- *)

\* Most well-formed news items in a payload.
MaxNewsItems == 6

\* Most basis records without any field in a payload.
MaxBlankRecords == 3

\* n copies of x
Repeat(x, n) == [ i \in 1..n |-> x ]

AbnormalItem ==
    [ code |-> << "hk00700" >>, name |-> << "name" >>, price |-> << -1 >>,
      change_percent |-> << -21 >> ]

BlankItem ==
    [ code |-> << >>, name |-> << >>, price |-> << >>, change_percent |-> << >> ]

\* None, or the first n required indices well-formed, then at most one
\* abnormal or blank item.
QualityMarketPayloads ==
    { << >> } \cup
    { << WellFormedItems({ REQUIRED_INDICES[i] : i \in 1..n }, 1) \o last >> :
        n \in {0, 5, 8}, last \in { << >>, << AbnormalItem >>, << BlankItem >> } }

\* None, the empty dict, or IC and IM complete with IF and IH in some forms.
QualityFuturesPayloads ==
    LET priced == [present |-> TRUE, price |-> << 4010 >>]
        absent == [present |-> FALSE, price |-> << >>]
        unpriced == [present |-> TRUE, price |-> << >>]
        form(c, n, f) == << [CurrentMonth |-> c, NextQuarter |-> n, FarQuarter |-> f] >>
    IN  { << >>, << [ code \in Range(REQUIRED_CONTRACTS) |-> << >> ] >> } \cup
        { << [ code \in Range(REQUIRED_CONTRACTS) |->
                 IF code = "IF" THEN f ELSE IF code = "IH" THEN h ELSE CompleteCode ] >> :
            f \in { << >>, CompleteCode, form(priced, priced, absent),
                    form(unpriced, priced, priced) },
            h \in { << >>, CompleteCode, form(priced, priced, absent) } }

GoodNews == [title |-> << "title" >>, category |-> << "industry" >>]

QualityNewsPayloads ==
    { << >> } \cup
    { << Repeat(GoodNews, k) \o last >> :
        k \in 0..MaxNewsItems,
        last \in { << >>,
                   << [title |-> << >>, category |-> << "industry" >>] >>,
                   << [title |-> << "title" >>, category |-> << "gossip" >>] >> } }

GoodBasis ==
    [ index |-> << "IF" >>, contract |-> << "CurrentMonth" >>,
      futures_price |-> << 4010 >>, spot_price |-> << 4000 >>,
      basis |-> << 1000 >>, annualized_basis |-> << 912 >> ]

BlankBasis ==
    [ index |-> << >>, contract |-> << >>, futures_price |-> << >>,
      spot_price |-> << >>, basis |-> << >>, annualized_basis |-> << >> ]

QualityBasisPayloads ==
    { << >> } \cup
    { << Repeat(BlankBasis, k) \o last >> :
        k \in 0..MaxBlankRecords,
        last \in { << >>, << GoodBasis >>,
                   << [GoodBasis EXCEPT !.basis = << -100100 >>,
                                        !.annualized_basis = << 5001 >>] >> } }

InitQuality ==
    /\ RetryIdle
    /\ BasisIdle
    /\ CalIdle
    /\ ValidIdle
    /\ PipeIdle
    /\ \E m \in QualityMarketPayloads, f \in QualityFuturesPayloads,
          n \in QualityNewsPayloads, b \in QualityBasisPayloads :
           quality = [ pc |-> "args", market |-> m, futures |-> f, news |-> n,
                       basis |-> b, checks |-> << >>, out |-> << >> ]

\* result = generate_quality_report(market_data, futures_data, news_data,
\* basis_data); checks keeps the four check_* results it computes.
GenerateQualityReport ==
    /\ quality.pc = "args"
    /\ quality' =
         [quality EXCEPT
            !.pc = "return",
            !.checks = << [ market  |-> check_market_data(quality.market),
                            futures |-> check_futures_data(quality.futures),
                            news    |-> check_news_data(quality.news),
                            basis   |-> check_basis_data(quality.basis) ] >>,
            !.out = << generate_quality_report(quality.market, quality.futures,
                                               quality.news, quality.basis) >>]
    /\ UNCHANGED <<retryVars, basisVars, calVars, validVars, pipeVars>>

NextQuality == GenerateQualityReport

SpecQuality == InitQuality /\ [][NextQuality]_vars

(***************************************************************************)
(* Properties of Part IV                                                   *)
(***************************************************************************)

Reported == quality.pc = "return"

\* max(0, 100 - E * W_e - W * W_w)
ScoreRule(E, W, w_e, w_w) ==
    IF 100 - E * w_e - W * w_w < 0 THEN 0 ELSE 100 - E * w_e - W * w_w

ListNonEmpty(payload) == Len(payload) = 1 /\ Len(payload[1]) > 0
FuturesNonEmpty(payload) == Len(payload) = 1 /\ ~FuturesFalsy(payload[1])

\* Some present code lacks a priced contract of a type expected for it.
FuturesIncomplete(futures) ==
    \E code \in DOMAIN futures :
        /\ Len(futures[code]) = 1
        /\ \E ct \in ExpectedTypes(code) :
               \/ ~futures[code][1][ct].present
               \/ Len(futures[code][1][ct].price) = 0
               \/ futures[code][1][ct].price[1] = 0

\* C22 as stated: for each domain with non-empty data the domain score is
\* max(0, 100 - E * W_e - W * W_w) with E and W the numbers of errors and
\* warnings the domain's validator returns for the same data, and weights
\* market (20, 5), futures (15, 5), news (10, 3), basis (10, 3).
C22_ScoreFromValidatorOnly ==
    Reported =>
        LET checks == quality.checks[1]
            score(result, w_e, w_w) ==
                ScoreRule(Len(result.errors), Len(result.warnings), w_e, w_w)
        IN  /\ ListNonEmpty(quality.market) =>
                 checks.market.score =
                   score(validate_market_data(quality.market[1]), 20, 5)
            /\ FuturesNonEmpty(quality.futures) =>
                 checks.futures.score =
                   score(validate_futures_data(quality.futures[1]), 15, 5)
            /\ ListNonEmpty(quality.news) =>
                 checks.news.score =
                   score(validate_news_data(quality.news[1]), 10, 3)
            /\ ListNonEmpty(quality.basis) =>
                 checks.basis.score =
                   score(validate_basis_data(quality.basis[1]), 10, 3)

\* C22 as amended: for each domain with non-empty data the domain score is
\* max(0, 100 - E * W_e - W * W_w) with the same weights, where E is the
\* number of errors of the domain's validator and W the number of its
\* warnings plus, for futures, one when a present code lacks a priced
\* expected contract and, for news, one when there are fewer than 5 items.
C22_ScoreFromValidatorAndExtras ==
    Reported =>
        LET checks == quality.checks[1]
            score(result, extra, w_e, w_w) ==
                ScoreRule(Len(result.errors), Len(result.warnings) + extra, w_e, w_w)
        IN  /\ ListNonEmpty(quality.market) =>
                 checks.market.score =
                   score(validate_market_data(quality.market[1]), 0, 20, 5)
            /\ FuturesNonEmpty(quality.futures) =>
                 checks.futures.score =
                   score(validate_futures_data(quality.futures[1]),
                         IF FuturesIncomplete(quality.futures[1]) THEN 1 ELSE 0,
                         15, 5)
            /\ ListNonEmpty(quality.news) =>
                 checks.news.score =
                   score(validate_news_data(quality.news[1]),
                         IF Len(quality.news[1]) < 5 THEN 1 ELSE 0, 10, 3)
            /\ ListNonEmpty(quality.basis) =>
                 checks.basis.score =
                   score(validate_basis_data(quality.basis[1]), 0, 10, 3)

\* The market example, 2 errors and 1 warning scoring 55, next to a futures
\* payload that earns the completeness warning.
C22_Witness ==
    /\ Reported
    /\ ListNonEmpty(quality.market)
    /\ Len(quality.checks[1].market.issues) = 2
    /\ Len(quality.checks[1].market.warnings) = 1
    /\ quality.checks[1].market.score = 55
    /\ FuturesNonEmpty(quality.futures)
    /\ FuturesIncomplete(quality.futures[1])
    /\ quality.checks[1].futures.score = 75

\* total is the integer floor of sum / n
MeanOver(total, sum, n) == n * total <= sum /\ sum < n * (total + 1)

\* C23 as stated: the overall score is the integer floor of the mean of the
\* scores of only those of market, futures and news whose payload is neither
\* absent nor empty (and of basis when its score enters the mean).
C23_MeanLeavesOutEmptyDomains ==
    Reported =>
        LET checks == quality.checks[1]
            term(applies, score) == IF applies THEN << score >> ELSE << >>
            applicable ==
                term(ListNonEmpty(quality.market), checks.market.score)
                \o term(FuturesNonEmpty(quality.futures), checks.futures.score)
                \o term(ListNonEmpty(quality.news), checks.news.score)
                \o term(checks.basis.score > 0, checks.basis.score)
        IN  IF Len(applicable) = 0 THEN quality.out[1].score = 0
            ELSE MeanOver(quality.out[1].score, SumSeq(applicable), Len(applicable))

\* C23 as amended: the overall score is the integer floor of the mean of the
\* market, futures and news scores, all three always, an absent or empty
\* payload contributing its score of 0 (and of basis when its score is
\* positive).
C23_MeanCountsEmptyDomainsAsZero ==
    Reported =>
        LET checks == quality.checks[1]
            three == checks.market.score + checks.futures.score + checks.news.score
        IN  /\ ~ListNonEmpty(quality.market) => checks.market.score = 0
            /\ ~FuturesNonEmpty(quality.futures) => checks.futures.score = 0
            /\ ~ListNonEmpty(quality.news) => checks.news.score = 0
            /\ IF checks.basis.score > 0
               THEN MeanOver(quality.out[1].score, three + checks.basis.score, 4)
               ELSE MeanOver(quality.out[1].score, three, 3)

\* Market absent, futures and news both scoring 100, no basis: overall 66.
C23_Witness ==
    /\ Reported
    /\ quality.market = << >>
    /\ quality.basis = << >>
    /\ quality.checks[1].futures.score = 100
    /\ quality.checks[1].news.score = 100
    /\ quality.out[1].score = 66

BasisRecords == IF Len(quality.basis) = 0 THEN 0 ELSE Len(quality.basis[1])

\* The basis score is one of the terms of the overall mean.
BasisIncluded ==
    LET checks == quality.checks[1]
        three == checks.market.score + checks.futures.score + checks.news.score
    IN  MeanOver(quality.out[1].score, three + checks.basis.score, 4)

BasisExcluded ==
    LET checks == quality.checks[1]
        three == checks.market.score + checks.futures.score + checks.news.score
    IN  MeanOver(quality.out[1].score, three, 3)

\* C24: the basis score is included in the overall mean whenever the basis
\* data holds at least one record, whatever the score (0 included), and is
\* excluded when there is no basis record.
C24_BasisIncludedIffRecords ==
    Reported =>
        IF BasisRecords >= 1 THEN BasisIncluded ELSE BasisExcluded

\* C25: in every QualityResult returned by generate_quality_report, passed
\* is true if and only if the overall score is >= 70.
C25_PassedIffScoreAtLeast70 ==
    Reported => (quality.out[1].passed <=> quality.out[1].score >= 70)

\* A report at the threshold itself: score 70, passed.
C25_Witness ==
    /\ Reported
    /\ quality.out[1].score = 70
    /\ quality.out[1].passed

(***************************************************************************)
(* Part V.  main.py: AShareAnalyzer.collect_data, check_quality, run_full  *)
(*                                                                         *)
(* run.results is the dict collect_data builds, run.storage the files of   *)
(* the date (absent, or the stored 'data'), run.outcome what each          *)
(* collector and save does when called, run.attempted the collectors       *)
(* called so far and run.steps the steps of run_full begun so far.         *)
(***************************************************************************)

Domains == << "market", "futures", "news" >>

\* What collector.collect_all() followed by storage.save_X() does: both
\* succeed with some data, collect_all raises, or the save raises.
CollectOutcomes(payloads) ==
    { [kind |-> "ok", data |-> p] : p \in payloads }
    \cup { [kind |-> "collect_raises", data |-> << >>] }
    \cup { [kind |-> "save_raises", data |-> p] : p \in payloads }

\* One try block of collect_data: the entry of results and the file after it.
TryCollectMutEntryBeforeSave(outcome, file) ==
    IF outcome.kind = "collect_raises"
    THEN [ entry |-> << >>, file |-> file ]
    ELSE [ entry |-> << outcome.data >>,
           file |-> IF outcome.kind = "ok" THEN << outcome.data >> ELSE file ]
TryCollect(outcome, file) ==
    IF outcome.kind = "ok"
    THEN [ entry |-> << outcome.data >>, file |-> << outcome.data >> ]
    ELSE [ entry |-> << >>, file |-> file ]

\* check_quality: the three files are loaded and scored, without basis data.
check_quality(storage) ==
    LET result == generate_quality_report(storage.market, storage.futures,
                                          storage.news, << >>)
    IN  [ score |-> result.score, passed |-> result.passed ]

\* `if not quality_result['passed']:` only logs a warning.
GateAbortsMutOnFail(quality_result) == ~quality_result.passed
GateAborts(quality_result) == FALSE

(* ----------------------------- inputs ---------------------------------- *)

PipeMarketData ==
    { WellFormedItems(Range(REQUIRED_INDICES), 1),
      WellFormedItems({ REQUIRED_INDICES[i] : i \in 1..5 }, 1) \o << AbnormalItem >> }

PipeFuturesData ==
    { [ code \in Range(REQUIRED_CONTRACTS) |-> CompleteCode ],
      [ code \in Range(REQUIRED_CONTRACTS) |->
          IF code = "IH" THEN << >> ELSE CompleteCode ] }

PipeNewsData == { Repeat(GoodNews, 6), Repeat(GoodNews, 3) }

PipeData(domain) ==
    IF domain = "market" THEN PipeMarketData
    ELSE IF domain = "futures" THEN PipeFuturesData ELSE PipeNewsData

\* The files an earlier run of the same date may have left.
PipeFiles(domain) == { << >> } \cup { << p >> : p \in PipeData(domain) }

InitPipeline ==
    /\ RetryIdle
    /\ BasisIdle
    /\ CalIdle
    /\ ValidIdle
    /\ QualityIdle
    /\ \E om \in CollectOutcomes(PipeData("market")),
          of \in CollectOutcomes(PipeData("futures")),
          on \in CollectOutcomes(PipeData("news")),
          sm \in PipeFiles("market"), sf \in PipeFiles("futures"),
          sn \in PipeFiles("news"),
          analyze_raises \in BOOLEAN, report_raises \in BOOLEAN :
           run = [ pc |-> "run_full",
                   outcome |-> [market |-> om, futures |-> of, news |-> on],
                   analyze_raises |-> analyze_raises,
                   report_raises |-> report_raises,
                   storage |-> [market |-> sm, futures |-> sf, news |-> sn],
                   results |-> [market |-> << >>, futures |-> << >>, news |-> << >>],
                   attempted |-> << >>,
                   steps |-> << >>,
                   quality |-> << >>,
                   returned |-> << >>,
                   raised |-> << >> ]

(* ----------------------------- actions --------------------------------- *)

\* The try block of one domain, entered at pc `from` and left at pc `to`.
CollectDomain(domain, from, to) ==
    /\ run.pc = from
    /\ LET after == TryCollect(run.outcome[domain], run.storage[domain])
       IN  run' = [run EXCEPT !.pc = to,
                              !.attempted = Append(@, domain),
                              !.results[domain] = after.entry,
                              !.storage[domain] = after.file,
                              !.steps = IF domain = "market"
                                        THEN Append(@, "collect") ELSE @]
    /\ UNCHANGED <<retryVars, basisVars, calVars, validVars, qualityVars>>

CollectMarket == CollectDomain("market", "run_full", "market_done")
CollectFutures == CollectDomain("futures", "market_done", "futures_done")
CollectNews == CollectDomain("news", "futures_done", "collected")

\* quality_result = self.check_quality(date)
CheckQuality ==
    /\ run.pc = "collected"
    /\ run' = [run EXCEPT !.pc = "checked",
                          !.steps = Append(@, "quality"),
                          !.quality = << check_quality(run.storage) >>]
    /\ UNCHANGED <<retryVars, basisVars, calVars, validVars, qualityVars>>

\* analysis = self.analyzer.analyze(date)
Analysis ==
    /\ run.pc = "checked"
    /\ IF GateAborts(run.quality[1])
       THEN run' = [run EXCEPT !.pc = "aborted"]
       ELSE run' = [run EXCEPT !.steps = Append(@, "analysis"),
                               !.pc = IF run.analyze_raises THEN "raised"
                                      ELSE "analysed",
                               !.raised = IF run.analyze_raises
                                          THEN << "analyze" >> ELSE @]
    /\ UNCHANGED <<retryVars, basisVars, calVars, validVars, qualityVars>>

\* report = self.generate_report(date, format='feishu'); return {...}
Report ==
    /\ run.pc = "analysed"
    /\ IF run.report_raises
       THEN run' = [run EXCEPT !.steps = Append(@, "report"),
                               !.pc = "raised",
                               !.raised = << "generate_report" >>]
       ELSE run' = [run EXCEPT !.steps = Append(@, "report"),
                               !.pc = "returned",
                               !.returned = << [ collect |-> run.results,
                                                 quality |-> run.quality[1] ] >>]
    /\ UNCHANGED <<retryVars, basisVars, calVars, validVars, qualityVars>>

NextPipeline ==
    \/ CollectMarket
    \/ CollectFutures
    \/ CollectNews
    \/ CheckQuality
    \/ Analysis
    \/ Report

SpecPipeline == InitPipeline /\ [][NextPipeline]_vars

(***************************************************************************)
(* Properties of Part V                                                    *)
(***************************************************************************)

FixedOrder == << "collect", "quality", "analysis", "report" >>

InRunFull == run.pc # "idle"

GateFailed == InRunFull /\ Len(run.quality) = 1 /\ ~run.quality[1].passed

\* C26: the steps of run_full run in the order collect, quality check,
\* analysis, report; a quality result with passed = false stops nothing: the
\* step after the quality check is the analysis and the step after a
\* completed analysis is the report, whatever passed is, and a returned
\* result carries the quality result, passed = false included.
C26_FailedGateAbortsNothing ==
    /\ [](InRunFull => IsPrefix(run.steps, FixedOrder))
    /\ [](InRunFull /\ run.pc = "returned" =>
            /\ run.steps = FixedOrder
            /\ run.returned[1].quality = run.quality[1])
    /\ [][GateFailed /\ run.pc = "checked" =>
            run'.steps = << "collect", "quality", "analysis" >>]_vars
    /\ [][GateFailed /\ run.pc = "analysed" =>
            run'.steps = FixedOrder]_vars
    /\ [][GateFailed /\ run.pc = "analysed" /\ run'.pc = "returned" =>
            ~run'.returned[1].quality.passed]_vars

\* A run that returned after all four steps with a failed quality result.
C26_Witness ==
    /\ InRunFull
    /\ run.pc = "returned"
    /\ run.steps = FixedOrder
    /\ run.quality[1].score < 70
    /\ ~run.returned[1].quality.passed

CollectReturned == InRunFull /\ run.pc \notin {"run_full", "market_done", "futures_done"}

\* C30: collect_data attempts the collections in the order market, futures,
\* news; a failure while collecting or saving one domain leaves that domain's
\* entry None, every later domain is still attempted, and collect_data
\* returns, the only failures raised in the run being those of later steps.
C30_CollectorFailureIsContained ==
    InRunFull =>
        /\ IsPrefix(run.attempted, Domains)
        /\ CollectReturned => run.attempted = Domains
        /\ \A i \in 1..Len(run.attempted) :
               LET domain == run.attempted[i]
               IN  IF run.outcome[domain].kind = "ok"
                   THEN run.results[domain] = << run.outcome[domain].data >>
                   ELSE run.results[domain] = << >>
        /\ Len(run.raised) = 1 =>
               /\ CollectReturned
               /\ run.raised[1] \in {"analyze", "generate_report"}

\* collect_data has returned after the market collector raised and the save
\* of the futures data raised: both entries None, news collected.
C30_Witness ==
    /\ InRunFull
    /\ run.pc = "collected"
    /\ run.outcome.market.kind = "collect_raises"
    /\ run.outcome.futures.kind = "save_raises"
    /\ run.outcome.news.kind = "ok"
    /\ run.attempted = Domains
    /\ run.results.market = << >>
    /\ run.results.futures = << >>
    /\ run.results.news # << >>

(***************************************************************************)
(* Further properties of Part II and Part I                                *)
(***************************************************************************)

SameDay(a, b) == a.year = b.year /\ a.month = b.month /\ a.day = b.day

\* The instant lies, at whatever time of day, on the expiry day of the
\* contract type, a trading day.
OnExpiryDay(at, contract_type) ==
    LET expiry == get_contract_expiry(contract_type, at.year, at.month)
    IN  /\ expiry.exc = "None"
        /\ SameDay(at, expiry.value[1])
        /\ is_trading_day(expiry.value[1])

\* C27: for a start instant at any time of day on a trading day D that is
\* the expiry date, the trading-day count to expiry is 1, and the basis
\* engine uses that 1, not the fallback horizon, in its records.
C27_ExpiryDayCountsOne ==
    Returned =>
        \A ct \in ContractTypes :
            OnExpiryDay(basis_out.at, ct) =>
                /\ get_trading_days_between(
                       basis_out.at,
                       get_contract_expiry(ct, basis_out.at.year,
                                           basis_out.at.month).value[1]) = 1
                /\ \A n \in 1..Len(basis_out.results) :
                       basis_out.results[n].contract = ct =>
                           basis_out.results[n].trading_days = 1

\* Attempt k is made and is the first to succeed: the attempts before it
\* failed with failures the predicate selects.
FirstSuccessAt(k) ==
    /\ k \in 1..Len(outcomes)
    /\ outcomes[k] = "ok"
    /\ \A j \in 1..(k - 1) : outcomes[j] \in RetryableKinds

\* What C28 says of one wrapper invocation w, left alone by its caller.
AtMostMaxAttempts(w) ==
    CallCount(w.trace) <= (IF cfg.max_retries > 0 THEN cfg.max_retries ELSE 0)

FirstSuccessReturned(w, k) ==
    /\ w.attempt <= k
    /\ CallCount(w.trace) <= k
    /\ SleepCount(w.trace) <= k - 1
    /\ (w.pc = "done" /\ w.cancel_at = "no") =>
         /\ w.result = [tag |-> "return", exc |-> "None", cause |-> <<"ok", k>>]
         /\ CallCount(w.trace) = k
         /\ SleepCount(w.trace) = k - 1
         /\ w.trace[Len(w.trace)] = <<"call", k>>
         /\ w.inflight = 0

\* C28: for any sequence of attempt outcomes the operation is attempted at
\* most max_retries times; if attempt k (1 <= k <= max_retries) is the first
\* to succeed, its result is returned to the caller after exactly k attempts
\* and k-1 waits, no attempt follows it and RetryError is not raised.
C28_FirstSuccessEndsRetrying ==
    /\ AtMostMaxAttempts(sync)
    /\ AtMostMaxAttempts(async)
    /\ \A k \in 1..Len(outcomes) :
           FirstSuccessAt(k) =>
               /\ k <= cfg.max_retries
               /\ FirstSuccessReturned(sync, k)
               /\ FirstSuccessReturned(async, k)

\* Both wrappers returned the result of the third attempt, after two waits.
C28_Witness ==
    /\ FirstSuccessAt(3)
    /\ sync.pc = "done" /\ sync.result.tag = "return"
    /\ async.pc = "done" /\ async.result.tag = "return"
    /\ CallCount(sync.trace) = 3 /\ SleepCount(sync.trace) = 2
    /\ CallCount(async.trace) = 3 /\ SleepCount(async.trace) = 2

\* C29: with max_retries <= 0 neither wrapper ever calls the operation or
\* waits, and each ends with RetryError whose last_error is None.
C29_NoAttemptStillExhausted ==
    cfg.decorator # "none" /\ cfg.max_retries <= 0 =>
        /\ sync.trace = << >> /\ sync.attempt = 0 /\ sync.inflight = 0
        /\ async.trace = << >> /\ async.attempt = 0 /\ async.inflight = 0
        /\ sync.pc \in {"loop", "done"}
        /\ async.pc \in {"loop", "done"}
        /\ sync.pc = "done" =>
             sync.result = [tag |-> "raise", exc |-> "RetryError", cause |-> NoError]
        /\ async.pc = "done" =>
             async.result = [tag |-> "raise", exc |-> "RetryError", cause |-> NoError]

\* max_retries = -1: both wrappers ended in RetryError without a call.
C29_Witness ==
    /\ cfg.max_retries = -1
    /\ sync.pc = "done" /\ sync.result.exc = "RetryError"
    /\ async.pc = "done" /\ async.result.exc = "RetryError"
    /\ sync.trace = << >> /\ async.trace = << >>

====
